---- MODULE Spec2Model ----
(***************************************************************************)
(* Model of the graph library: GraphAdjacencyList, GraphAdjacencyMatrix    *)
(* and the GraphTraversal and ShortestPath algorithms that read them       *)
(* through the common get_vertices / get_neighbors interface.              *)
(*                                                                         *)
(* One GraphAdjacencyList and one GraphAdjacencyMatrix are constructed     *)
(* with the same directed flag and receive the same sequence of calls, as  *)
(* demo_basic_operations does.                                             *)
(*                                                                         *)
(* Python values are represented as follows.                               *)
(*   tuple (neighbor, weight)   <<neighbor, weight>>                       *)
(*   list                       sequence (1-based; Python is 0-based)      *)
(*   dict (insertion ordered)   sequence of <<key, value>> entries         *)
(*   None                       <<>> ; a weight w that is returned where   *)
(*                              None is possible is <<w>>                  *)
(***************************************************************************)
EXTENDS Integers, Sequences, FiniteSets, TLC

\* ------------------------------------------------------------------------
\* Bounds of the model
\* ------------------------------------------------------------------------

\* Edge weights passed to add_edge are 0..MaxWeight.
MaxWeight == 2

\* Number of mutating calls (add_vertex, add_edge, remove_edge) made on the
\* pair of graphs in one behaviour of Spec and SpecNonZero.
MaxCalls == 5

\* Number of add_vertex and add_edge calls that build the graphs in one
\* behaviour of SpecTraversal; the traversals themselves are not limited.
MaxBuildCalls == 7

\* Vertex labels passed to the calls.  The labels are integers whose
\* decimal strings are ordered differently from their values
\* ("1" < "10" < "2").
VertexPool == {1, 2, 10}

Weights == 0..MaxWeight

\* Number of add_edge calls that build a graph handed to the shortest-path
\* algorithms in SpecShortestPath and SpecPaths.
MaxPathEdges == 3

\* Edge weights of these graphs: one negative, and two positive ones such
\* that two edges of the smaller weigh less than one edge of the larger.
PathWeights == {-1, 1, 3}

\* ------------------------------------------------------------------------
\* Python helpers
\* ------------------------------------------------------------------------

None == <<>>

SeqToSet(s) == {s[i] : i \in 1..Len(s)}

Front(s) == SubSeq(s, 1, Len(s) - 1)

Last(s) == s[Len(s)]

\* dict: `key in d`
DictHas(d, k) == \E i \in 1..Len(d) : d[i][1] = k

DictIndex(d, k) == CHOOSE i \in 1..Len(d) : d[i][1] = k

\* dict: d[key]
DictGet(d, k) == d[DictIndex(d, k)][2]

\* dict: d[key] = value (an existing key keeps its position)
DictSet(d, k, val) ==
    IF DictHas(d, k) THEN [d EXCEPT ![DictIndex(d, k)] = <<k, val>>]
    ELSE Append(d, <<k, val>>)

\* dict: list(d.keys())
DictKeys(d) == [i \in 1..Len(d) |-> d[i][1]]

\* str(v) of a positive integer label, as its sequence of decimal digits
RECURSIVE str(_)
str(v) == IF v < 10 THEN <<v>> ELSE str(v \div 10) \o <<v % 10>>

\* Python's < on two strings
StrLess(a, b) ==
    \E i \in 1..Len(b) :
        /\ \A j \in 1..(i - 1) : j <= Len(a) /\ a[j] = b[j]
        /\ (i > Len(a) \/ a[i] < b[i])

\* ------------------------------------------------------------------------
\* GraphAdjacencyList
\* ------------------------------------------------------------------------

GraphAdjacencyList_init(directed) ==
    [type |-> "GraphAdjacencyList", directed |-> directed, adjacency_list |-> <<>>]

\* Variant of add_vertex without the membership test: the entry of an
\* existing vertex is reset.
GraphAdjacencyList_add_vertex_unchecked(g, vertex) ==
    [ret |-> TRUE,
     graph |-> [g EXCEPT !.adjacency_list = DictSet(@, vertex, <<>>)]]

GraphAdjacencyList_add_vertex(g, vertex) ==
    IF DictHas(g.adjacency_list, vertex)
    THEN [ret |-> FALSE, graph |-> g]
    ELSE [ret |-> TRUE,
          graph |-> [g EXCEPT !.adjacency_list = DictSet(@, vertex, <<>>)]]

\* Variant of the in-place update that leaves the reverse entry alone.
GraphAdjacencyList_update_edge_one_way(g, from_vertex, to_vertex, weight) ==
    LET nbrs == DictGet(g.adjacency_list, from_vertex)
        i    == CHOOSE k \in 1..Len(nbrs) :
                    /\ nbrs[k][1] = to_vertex
                    /\ \A m \in 1..(k - 1) : nbrs[m][1] # to_vertex
    IN [g EXCEPT !.adjacency_list =
            DictSet(@, from_vertex, [nbrs EXCEPT ![i] = <<to_vertex, weight>>])]

\* The in-place update of an existing edge: the first entry for to_vertex in
\* from_vertex's list, then every entry for from_vertex in to_vertex's list
\* when the graph is undirected.
GraphAdjacencyList_update_edge(g, from_vertex, to_vertex, weight) ==
    LET al    == g.adjacency_list
        nbrs  == DictGet(al, from_vertex)
        i     == CHOOSE k \in 1..Len(nbrs) :
                    /\ nbrs[k][1] = to_vertex
                    /\ \A m \in 1..(k - 1) : nbrs[m][1] # to_vertex
        al1   == DictSet(al, from_vertex, [nbrs EXCEPT ![i] = <<to_vertex, weight>>])
        back  == DictGet(al1, to_vertex)
        al2   == IF g.directed THEN al1
                 ELSE DictSet(al1, to_vertex,
                        [j \in 1..Len(back) |->
                            IF back[j][1] = from_vertex
                            THEN <<from_vertex, weight>> ELSE back[j]])
    IN [g EXCEPT !.adjacency_list = al2]

\* The append of a new edge, and of its reverse entry when undirected.
GraphAdjacencyList_append_edge(g, from_vertex, to_vertex, weight) ==
    LET al   == g.adjacency_list
        al1  == DictSet(al, from_vertex,
                    Append(DictGet(al, from_vertex), <<to_vertex, weight>>))
        al2  == IF g.directed THEN al1
                ELSE DictSet(al1, to_vertex,
                        Append(DictGet(al1, to_vertex), <<from_vertex, weight>>))
    IN [g EXCEPT !.adjacency_list = al2]

\* Variant of add_edge that appends without looking for an existing entry.
GraphAdjacencyList_add_edge_always_append(g, from_vertex, to_vertex, weight) ==
    IF ~DictHas(g.adjacency_list, from_vertex) \/ ~DictHas(g.adjacency_list, to_vertex)
    THEN [ret |-> FALSE, graph |-> g]
    ELSE [ret |-> TRUE,
          graph |-> GraphAdjacencyList_append_edge(g, from_vertex, to_vertex, weight)]

\* Variant of add_edge that tests from_vertex only and creates a missing
\* to_vertex on the fly (as a defaultdict would).
GraphAdjacencyList_add_edge_implicit_vertex(g, from_vertex, to_vertex, weight) ==
    IF ~DictHas(g.adjacency_list, from_vertex)
    THEN [ret |-> FALSE, graph |-> g]
    ELSE
        LET g1 == IF DictHas(g.adjacency_list, to_vertex) THEN g
                  ELSE [g EXCEPT !.adjacency_list = DictSet(@, to_vertex, <<>>)]
        IN IF \E k \in 1..Len(DictGet(g1.adjacency_list, from_vertex)) :
                  DictGet(g1.adjacency_list, from_vertex)[k][1] = to_vertex
           THEN [ret |-> TRUE,
                 graph |-> GraphAdjacencyList_update_edge(g1, from_vertex, to_vertex, weight)]
           ELSE [ret |-> TRUE,
                 graph |-> GraphAdjacencyList_append_edge(g1, from_vertex, to_vertex, weight)]

GraphAdjacencyList_add_edge(g, from_vertex, to_vertex, weight) ==
    IF ~DictHas(g.adjacency_list, from_vertex) \/ ~DictHas(g.adjacency_list, to_vertex)
    THEN [ret |-> FALSE, graph |-> g]
    ELSE IF \E k \in 1..Len(DictGet(g.adjacency_list, from_vertex)) :
                DictGet(g.adjacency_list, from_vertex)[k][1] = to_vertex
    THEN [ret |-> TRUE,
          graph |-> GraphAdjacencyList_update_edge(g, from_vertex, to_vertex, weight)]
    ELSE [ret |-> TRUE,
          graph |-> GraphAdjacencyList_append_edge(g, from_vertex, to_vertex, weight)]

\* Variant of remove_edge that never removes the reverse entry.
GraphAdjacencyList_remove_edge_one_way(g, from_vertex, to_vertex) ==
    IF ~DictHas(g.adjacency_list, from_vertex) \/ ~DictHas(g.adjacency_list, to_vertex)
    THEN [ret |-> FALSE, graph |-> g]
    ELSE [ret |-> TRUE,
          graph |-> [g EXCEPT !.adjacency_list =
                        DictSet(@, from_vertex,
                            SelectSeq(DictGet(@, from_vertex),
                                      LAMBDA e : e[1] # to_vertex))]]

GraphAdjacencyList_remove_edge(g, from_vertex, to_vertex) ==
    IF ~DictHas(g.adjacency_list, from_vertex) \/ ~DictHas(g.adjacency_list, to_vertex)
    THEN [ret |-> FALSE, graph |-> g]
    ELSE
        LET al  == g.adjacency_list
            al1 == DictSet(al, from_vertex,
                     SelectSeq(DictGet(al, from_vertex),
                               LAMBDA e : e[1] # to_vertex))
            al2 == IF g.directed THEN al1
                   ELSE DictSet(al1, to_vertex,
                          SelectSeq(DictGet(al1, to_vertex),
                                    LAMBDA e : e[1] # from_vertex))
        IN [ret |-> TRUE, graph |-> [g EXCEPT !.adjacency_list = al2]]

GraphAdjacencyList_has_edge(g, from_vertex, to_vertex) ==
    IF ~DictHas(g.adjacency_list, from_vertex) THEN FALSE
    ELSE \E k \in 1..Len(DictGet(g.adjacency_list, from_vertex)) :
            DictGet(g.adjacency_list, from_vertex)[k][1] = to_vertex

\* The weight of the first entry for to_vertex, as <<weight>>, or None.
GraphAdjacencyList_get_edge_weight(g, from_vertex, to_vertex) ==
    IF ~DictHas(g.adjacency_list, from_vertex) THEN None
    ELSE
        LET nbrs == DictGet(g.adjacency_list, from_vertex)
            hits == {k \in 1..Len(nbrs) : nbrs[k][1] = to_vertex}
        IN IF hits = {} THEN None
           ELSE <<nbrs[CHOOSE k \in hits : \A m \in hits : k <= m][2]>>

GraphAdjacencyList_get_neighbors(g, vertex) ==
    IF ~DictHas(g.adjacency_list, vertex) THEN <<>>
    ELSE DictGet(g.adjacency_list, vertex)

GraphAdjacencyList_get_vertices(g) == DictKeys(g.adjacency_list)

GraphAdjacencyList_get_vertex_count(g) == Len(g.adjacency_list)

RECURSIVE SumLen(_, _)
SumLen(d, n) == IF n = 0 THEN 0 ELSE SumLen(d, n - 1) + Len(d[n][2])

GraphAdjacencyList_get_edge_count(g) ==
    LET count == SumLen(g.adjacency_list, Len(g.adjacency_list))
    IN IF ~g.directed THEN count \div 2 ELSE count

\* ------------------------------------------------------------------------
\* GraphAdjacencyMatrix
\* ------------------------------------------------------------------------

\* vertex_map holds the position of each label in vertices (1-based here).
GraphAdjacencyMatrix_init(directed) ==
    [type |-> "GraphAdjacencyMatrix", directed |-> directed,
     vertices |-> <<>>, matrix |-> <<>>, vertex_map |-> <<>>]

GraphAdjacencyMatrix_add_vertex(g, vertex) ==
    IF DictHas(g.vertex_map, vertex)
    THEN [ret |-> FALSE, graph |-> g]
    ELSE
        LET vertices == Append(g.vertices, vertex)
            index    == Len(vertices)
            new_row  == [j \in 1..Len(vertices) |-> 0]
            matrix1  == Append(g.matrix, new_row)
            matrix2  == [i \in 1..Len(matrix1) |->
                            IF i <= Len(matrix1) - 1
                            THEN Append(matrix1[i], 0) ELSE matrix1[i]]
        IN [ret |-> TRUE,
            graph |-> [g EXCEPT !.vertices = vertices,
                                !.vertex_map = DictSet(@, vertex, index),
                                !.matrix = matrix2]]

\* Variant that writes nothing when weight is 0.
GraphAdjacencyMatrix_add_edge_skip_zero(g, from_vertex, to_vertex, weight) ==
    IF ~DictHas(g.vertex_map, from_vertex) \/ ~DictHas(g.vertex_map, to_vertex)
    THEN [ret |-> FALSE, graph |-> g]
    ELSE IF weight = 0 THEN [ret |-> TRUE, graph |-> g]
    ELSE
        LET from_idx == DictGet(g.vertex_map, from_vertex)
            to_idx   == DictGet(g.vertex_map, to_vertex)
            matrix1  == [g.matrix EXCEPT ![from_idx][to_idx] = weight]
            matrix2  == IF ~g.directed
                        THEN [matrix1 EXCEPT ![to_idx][from_idx] = weight]
                        ELSE matrix1
        IN [ret |-> TRUE, graph |-> [g EXCEPT !.matrix = matrix2]]

GraphAdjacencyMatrix_add_edge(g, from_vertex, to_vertex, weight) ==
    IF ~DictHas(g.vertex_map, from_vertex) \/ ~DictHas(g.vertex_map, to_vertex)
    THEN [ret |-> FALSE, graph |-> g]
    ELSE
        LET from_idx == DictGet(g.vertex_map, from_vertex)
            to_idx   == DictGet(g.vertex_map, to_vertex)
            matrix1  == [g.matrix EXCEPT ![from_idx][to_idx] = weight]
            matrix2  == IF ~g.directed
                        THEN [matrix1 EXCEPT ![to_idx][from_idx] = weight]
                        ELSE matrix1
        IN [ret |-> TRUE, graph |-> [g EXCEPT !.matrix = matrix2]]

GraphAdjacencyMatrix_remove_edge(g, from_vertex, to_vertex) ==
    IF ~DictHas(g.vertex_map, from_vertex) \/ ~DictHas(g.vertex_map, to_vertex)
    THEN [ret |-> FALSE, graph |-> g]
    ELSE
        LET from_idx == DictGet(g.vertex_map, from_vertex)
            to_idx   == DictGet(g.vertex_map, to_vertex)
            matrix1  == [g.matrix EXCEPT ![from_idx][to_idx] = 0]
            matrix2  == IF ~g.directed
                        THEN [matrix1 EXCEPT ![to_idx][from_idx] = 0]
                        ELSE matrix1
        IN [ret |-> TRUE, graph |-> [g EXCEPT !.matrix = matrix2]]

GraphAdjacencyMatrix_has_edge(g, from_vertex, to_vertex) ==
    IF ~DictHas(g.vertex_map, from_vertex) \/ ~DictHas(g.vertex_map, to_vertex)
    THEN FALSE
    ELSE g.matrix[DictGet(g.vertex_map, from_vertex)][DictGet(g.vertex_map, to_vertex)] # 0

GraphAdjacencyMatrix_get_edge_weight(g, from_vertex, to_vertex) ==
    IF ~GraphAdjacencyMatrix_has_edge(g, from_vertex, to_vertex) THEN None
    ELSE <<g.matrix[DictGet(g.vertex_map, from_vertex)][DictGet(g.vertex_map, to_vertex)]>>

\* The row of the vertex scanned in index order, keeping the non-zero cells.
GraphAdjacencyMatrix_get_neighbors(g, vertex) ==
    IF ~DictHas(g.vertex_map, vertex) THEN <<>>
    ELSE
        LET row   == g.matrix[DictGet(g.vertex_map, vertex)]
            cells == [i \in 1..Len(row) |-> <<g.vertices[i], row[i]>>]
        IN SelectSeq(cells, LAMBDA c : c[2] # 0)

GraphAdjacencyMatrix_get_vertices(g) == g.vertices

GraphAdjacencyMatrix_get_vertex_count(g) == Len(g.vertices)

GraphAdjacencyMatrix_get_edge_count(g) ==
    LET count == Cardinality({ij \in (1..Len(g.matrix)) \X (1..Len(g.matrix)) :
                                g.matrix[ij[1]][ij[2]] # 0})
    IN IF ~g.directed THEN count \div 2 ELSE count

\* ------------------------------------------------------------------------
\* The calls of the common interface, dispatched on the object's class
\* ------------------------------------------------------------------------

add_vertex(g, vertex) ==
    IF g.type = "GraphAdjacencyList" THEN GraphAdjacencyList_add_vertex(g, vertex)
    ELSE GraphAdjacencyMatrix_add_vertex(g, vertex)

add_edge(g, from_vertex, to_vertex, weight) ==
    IF g.type = "GraphAdjacencyList"
    THEN GraphAdjacencyList_add_edge(g, from_vertex, to_vertex, weight)
    ELSE GraphAdjacencyMatrix_add_edge(g, from_vertex, to_vertex, weight)

remove_edge(g, from_vertex, to_vertex) ==
    IF g.type = "GraphAdjacencyList"
    THEN GraphAdjacencyList_remove_edge(g, from_vertex, to_vertex)
    ELSE GraphAdjacencyMatrix_remove_edge(g, from_vertex, to_vertex)

has_edge(g, from_vertex, to_vertex) ==
    IF g.type = "GraphAdjacencyList"
    THEN GraphAdjacencyList_has_edge(g, from_vertex, to_vertex)
    ELSE GraphAdjacencyMatrix_has_edge(g, from_vertex, to_vertex)

get_edge_weight(g, from_vertex, to_vertex) ==
    IF g.type = "GraphAdjacencyList"
    THEN GraphAdjacencyList_get_edge_weight(g, from_vertex, to_vertex)
    ELSE GraphAdjacencyMatrix_get_edge_weight(g, from_vertex, to_vertex)

get_neighbors(g, vertex) ==
    IF g.type = "GraphAdjacencyList" THEN GraphAdjacencyList_get_neighbors(g, vertex)
    ELSE GraphAdjacencyMatrix_get_neighbors(g, vertex)

get_vertices(g) ==
    IF g.type = "GraphAdjacencyList" THEN GraphAdjacencyList_get_vertices(g)
    ELSE GraphAdjacencyMatrix_get_vertices(g)

get_vertex_count(g) ==
    IF g.type = "GraphAdjacencyList" THEN GraphAdjacencyList_get_vertex_count(g)
    ELSE GraphAdjacencyMatrix_get_vertex_count(g)

get_edge_count(g) ==
    IF g.type = "GraphAdjacencyList" THEN GraphAdjacencyList_get_edge_count(g)
    ELSE GraphAdjacencyMatrix_get_edge_count(g)

\* ------------------------------------------------------------------------
\* GraphTraversal
\* ------------------------------------------------------------------------

\* `x in graph.get_vertices()`
InVertices(g, x) == x \in SeqToSet(get_vertices(g))

\* sorted(neighbors, key=lambda x: str(x[0]), reverse=reverse): a stable
\* sort, so entries with equal keys keep their order in both directions.
RECURSIVE sorted(_, _)
sorted(neighbors, reverse) ==
    IF neighbors = <<>> THEN <<>>
    ELSE
        LET t == sorted(Front(neighbors), reverse)
            x == Last(neighbors)
            p == Cardinality({i \in 1..Len(t) :
                    IF reverse THEN ~StrLess(str(t[i][1]), str(x[1]))
                    ELSE ~StrLess(str(x[1]), str(t[i][1]))})
        IN SubSeq(t, 1, p) \o <<x>> \o SubSeq(t, p + 1, Len(t))

\* Variant that stops after pushing one unvisited neighbor.
dfs_unvisited_neighbors_first_only(g, vertex, visited) ==
    LET neighbors_sorted == sorted(get_neighbors(g, vertex), TRUE)
        unvisited        == SelectSeq(neighbors_sorted, LAMBDA e : e[1] \notin visited)
    IN IF unvisited = <<>> THEN <<>> ELSE <<unvisited[1][1]>>

\* Variant that pushes the neighbors in storage order, without sorting.
dfs_unvisited_neighbors_unsorted(g, vertex, visited) ==
    LET neighbors == get_neighbors(g, vertex)
        unvisited == SelectSeq(neighbors, LAMBDA e : e[1] \notin visited)
    IN [i \in 1..Len(unvisited) |-> unvisited[i][1]]

\* The neighbors of the vertex just visited that depth_first_search pushes,
\* in the order it pushes them.
dfs_unvisited_neighbors(g, vertex, visited) ==
    LET neighbors        == get_neighbors(g, vertex)
        neighbors_sorted == sorted(neighbors, TRUE)
        unvisited        == SelectSeq(neighbors_sorted, LAMBDA e : e[1] \notin visited)
    IN [i \in 1..Len(unvisited) |-> unvisited[i][1]]

\* The while loop of depth_first_search.
RECURSIVE dfs_while(_, _, _, _)
dfs_while(g, stack, visited, traversal_order) ==
    IF stack = <<>> THEN traversal_order
    ELSE
        LET vertex == Last(stack)
            stack1 == Front(stack)
        IN IF vertex \notin visited
           THEN dfs_while(g,
                    stack1 \o dfs_unvisited_neighbors(g, vertex, visited \cup {vertex}),
                    visited \cup {vertex},
                    Append(traversal_order, vertex))
           ELSE dfs_while(g, stack1, visited, traversal_order)

depth_first_search(g, start_vertex) ==
    IF ~InVertices(g, start_vertex) THEN <<>>
    ELSE dfs_while(g, <<start_vertex>>, {}, <<>>)

\* Variant that considers the neighbors in descending order of str.
dfs_recursive_neighbors_descending(g, start_vertex) ==
    LET neighbors_sorted == sorted(get_neighbors(g, start_vertex), TRUE)
    IN [i \in 1..Len(neighbors_sorted) |-> neighbors_sorted[i][1]]

\* The neighbors depth_first_search_recursive considers, in order.
dfs_recursive_neighbors(g, start_vertex) ==
    LET neighbors_sorted == sorted(get_neighbors(g, start_vertex), FALSE)
    IN [i \in 1..Len(neighbors_sorted) |-> neighbors_sorted[i][1]]

\* depth_first_search_recursive with the accumulators visited and
\* traversal_order passed along as acc; the loop over the sorted neighbors
\* is dfs_recursive_for.
RECURSIVE dfs_recursive_call(_, _, _)
RECURSIVE dfs_recursive_for(_, _, _, _)
dfs_recursive_call(g, start_vertex, acc) ==
    IF ~InVertices(g, start_vertex) THEN acc
    ELSE dfs_recursive_for(g, dfs_recursive_neighbors(g, start_vertex), 1,
            [visited |-> acc.visited \cup {start_vertex},
             traversal_order |-> Append(acc.traversal_order, start_vertex)])

dfs_recursive_for(g, nbrs, i, acc) ==
    IF i > Len(nbrs) THEN acc
    ELSE IF nbrs[i] \notin acc.visited
    THEN dfs_recursive_for(g, nbrs, i + 1, dfs_recursive_call(g, nbrs[i], acc))
    ELSE dfs_recursive_for(g, nbrs, i + 1, acc)

depth_first_search_recursive(g, start_vertex) ==
    dfs_recursive_call(g, start_vertex,
        [visited |-> {}, traversal_order |-> <<>>]).traversal_order

\* The neighbors breadth_first_search considers for a dequeued vertex.
bfs_neighbors(g, vertex) ==
    LET neighbors_sorted == sorted(get_neighbors(g, vertex), FALSE)
    IN [i \in 1..Len(neighbors_sorted) |-> neighbors_sorted[i][1]]

\* The for loop of breadth_first_search: marks and enqueues each neighbor
\* that is not yet visited.
RECURSIVE bfs_for(_, _, _)
bfs_for(nbrs, i, acc) ==
    IF i > Len(nbrs) THEN acc
    ELSE IF nbrs[i] \notin acc.visited
    THEN bfs_for(nbrs, i + 1,
            [visited |-> acc.visited \cup {nbrs[i]},
             queue |-> Append(acc.queue, nbrs[i])])
    ELSE bfs_for(nbrs, i + 1, acc)

\* The while loop of breadth_first_search.
RECURSIVE bfs_while(_, _, _, _)
bfs_while(g, queue, visited, traversal_order) ==
    IF queue = <<>> THEN traversal_order
    ELSE
        LET vertex == Head(queue)
            acc    == bfs_for(bfs_neighbors(g, vertex), 1,
                        [visited |-> visited, queue |-> Tail(queue)])
        IN bfs_while(g, acc.queue, acc.visited, Append(traversal_order, vertex))

breadth_first_search(g, start_vertex) ==
    IF ~InVertices(g, start_vertex) THEN <<>>
    ELSE bfs_while(g, <<start_vertex>>, {start_vertex}, <<>>)

\* The local variables of breadth_first_search when it enters its while
\* loop.  enqueued is not a variable of the code: it lists every vertex
\* appended to queue so far, each with the vertex that was being visited
\* then (None for start_vertex).
bfs_locals(start_vertex) ==
    [queue |-> <<start_vertex>>, visited |-> {start_vertex}, traversal_order |-> <<>>,
     enqueued |-> << <<start_vertex, None>> >>]

\* Variant of the loop body that marks a vertex as visited when it is
\* dequeued, not when it is enqueued.
bfs_iteration_mark_on_dequeue(g, locals) ==
    LET vertex == Head(locals.queue)
        nbrs   == SelectSeq(bfs_neighbors(g, vertex),
                            LAMBDA n : n \notin locals.visited \cup {vertex})
    IN [queue           |-> Tail(locals.queue) \o nbrs,
        visited         |-> locals.visited \cup {vertex},
        traversal_order |-> Append(locals.traversal_order, vertex),
        enqueued        |-> locals.enqueued \o
                               [i \in 1..Len(nbrs) |-> <<nbrs[i], <<vertex>>>>]]

\* One pass through the body of the while loop of breadth_first_search.
bfs_iteration(g, locals) ==
    LET vertex == Head(locals.queue)
        acc    == bfs_for(bfs_neighbors(g, vertex), 1,
                    [visited |-> locals.visited, queue |-> Tail(locals.queue)])
        added  == SubSeq(acc.queue, Len(locals.queue), Len(acc.queue))
    IN [queue           |-> acc.queue,
        visited         |-> acc.visited,
        traversal_order |-> Append(locals.traversal_order, vertex),
        enqueued        |-> locals.enqueued \o
                               [i \in 1..Len(added) |-> <<added[i], <<vertex>>>>]]

\* Variant that only asks whether the search visited anything.
is_connected_any_visited(g) ==
    LET vertices == get_vertices(g)
    IN IF vertices = <<>> THEN [is_connected |-> TRUE, unreachable |-> {}]
       ELSE LET visited == depth_first_search(g, vertices[1])
            IN [is_connected |-> Len(visited) >= 1,
                unreachable  |-> SeqToSet(vertices) \ SeqToSet(visited)]

\* is_connected: is_connected is the value returned and unreachable the
\* set printed with it in verbose mode (empty when the graph is connected).
is_connected(g) ==
    LET vertices == get_vertices(g)
    IN IF vertices = <<>> THEN [is_connected |-> TRUE, unreachable |-> {}]
       ELSE LET visited == depth_first_search(g, vertices[1])
            IN [is_connected |-> Len(visited) = Len(vertices),
                unreachable  |-> SeqToSet(vertices) \ SeqToSet(visited)]

\* find_all_paths: dfs_paths is the nested function, with the list all_paths
\* it appends to passed along and returned; dfs_paths_for is its loop over
\* the neighbors.  visited and path are restored after each recursive call,
\* so every iteration of the loop sees the same visited and path.
RECURSIVE dfs_paths(_, _, _, _, _, _, _)
RECURSIVE dfs_paths_for(_, _, _, _, _, _, _, _)
dfs_paths(g, current, target, path, visited, max_paths, all_paths) ==
    IF Len(all_paths) >= max_paths THEN all_paths
    ELSE IF current = target THEN Append(all_paths, path)
    ELSE dfs_paths_for(g, get_neighbors(g, current), 1, target, path, visited,
                       max_paths, all_paths)

dfs_paths_for(g, neighbors, i, target, path, visited, max_paths, all_paths) ==
    IF i > Len(neighbors) THEN all_paths
    ELSE LET neighbor == neighbors[i][1]
         IN IF neighbor \notin visited
            THEN dfs_paths_for(g, neighbors, i + 1, target, path, visited, max_paths,
                    dfs_paths(g, neighbor, target, Append(path, neighbor),
                              visited \cup {neighbor}, max_paths, all_paths))
            ELSE dfs_paths_for(g, neighbors, i + 1, target, path, visited,
                               max_paths, all_paths)

\* Variant without the check that both endpoints are in the graph.
find_all_paths_unguarded(g, start_vertex, end_vertex, max_paths) ==
    dfs_paths(g, start_vertex, end_vertex, <<start_vertex>>, {start_vertex},
              max_paths, <<>>)

\* Variant that does not mark start_vertex as visited.
find_all_paths_start_unvisited(g, start_vertex, end_vertex, max_paths) ==
    IF ~InVertices(g, start_vertex) \/ ~InVertices(g, end_vertex) THEN <<>>
    ELSE dfs_paths(g, start_vertex, end_vertex, <<start_vertex>>, {},
                   max_paths, <<>>)

\* Variant that stops one path short of max_paths.
find_all_paths_exclusive_cap(g, start_vertex, end_vertex, max_paths) ==
    IF ~InVertices(g, start_vertex) \/ ~InVertices(g, end_vertex) THEN <<>>
    ELSE dfs_paths(g, start_vertex, end_vertex, <<start_vertex>>, {start_vertex},
                   max_paths - 1, <<>>)

find_all_paths(g, start_vertex, end_vertex, max_paths) ==
    IF ~InVertices(g, start_vertex) \/ ~InVertices(g, end_vertex) THEN <<>>
    ELSE dfs_paths(g, start_vertex, end_vertex, <<start_vertex>>, {start_vertex},
                   max_paths, <<>>)

\* ------------------------------------------------------------------------
\* ShortestPath
\* ------------------------------------------------------------------------

\* float('inf').  A distance is inf or <<d>> for the number d, as an
\* optional weight is; the code never does arithmetic on inf (it skips the
\* vertices whose distance is inf), it only compares with it.
inf == <<>>

\* Python's a < b on two distances
FloatLess(a, b) == a # inf /\ (b = inf \/ a[1] < b[1])

\* {v: value for v in vertices}
DictFromKeys(vertices, value) == [i \in 1..Len(vertices) |-> <<vertices[i], value>>]

\* Python's truth value of an optional vertex label: None and 0 are false.
Truthy(x) == x # None /\ x[1] # 0

\* Variant that leaves the list as it is.
Reverse_not(s) == s

Reverse(s) == [i \in 1..Len(s) |-> s[Len(s) + 1 - i]]

\* The while loop of _reconstruct_path.  The loop is deterministic in
\* current, so once it comes back to a vertex already appended it keeps
\* appending the same vertices, until memory runs out: status "diverges".
RECURSIVE reconstruct_while(_, _, _)
reconstruct_while(predecessors, current, path) ==
    IF current = None THEN [status |-> "returned", path |-> Reverse(path)]
    ELSE IF current[1] \in SeqToSet(path) THEN [status |-> "diverges", path |-> <<>>]
    ELSE reconstruct_while(predecessors, DictGet(predecessors, current[1]),
                           Append(path, current[1]))

\* _reconstruct_path: status is "returned" with the path returned,
\* "KeyError" when predecessors[end_vertex] raises, or "diverges".  A
\* predecessor is None or <<u>> for the vertex u.
reconstruct_path(predecessors, start_vertex, end_vertex) ==
    IF ~DictHas(predecessors, end_vertex) THEN [status |-> "KeyError", path |-> <<>>]
    ELSE IF DictGet(predecessors, end_vertex) = None /\ end_vertex # start_vertex
    THEN [status |-> "returned", path |-> <<>>]
    ELSE reconstruct_while(predecessors, <<end_vertex>>, <<>>)

get_path(predecessors, start_vertex, end_vertex) ==
    reconstruct_path(predecessors, start_vertex, end_vertex)

\* The RESULTS table printed in verbose mode by dijkstra and bellman_ford:
\* it reconstructs the path of every vertex whose distance is not inf, and
\* is complete when each of these calls returns.
results_printed(distances, predecessors, start_vertex) ==
    \A i \in 1..Len(distances) :
        distances[i][2] # inf =>
            reconstruct_path(predecessors, start_vertex, distances[i][1]).status = "returned"

\* Variant that pops the largest tuple.
heappop_largest(pq) ==
    CHOOSE e \in pq : \A f \in pq : e[1] > f[1] \/ (e[1] = f[1] /\ e[2] >= f[2])

\* heapq.heappop(pq): the smallest (distance, vertex) tuple.  pq never holds
\* two equal tuples (a vertex is pushed only with a distance smaller than
\* every one it was pushed with before), so it is kept as a set.
heappop(pq) ==
    CHOOSE e \in pq : \A f \in pq : e[1] < f[1] \/ (e[1] = f[1] /\ e[2] <= f[2])

\* The loop of dijkstra over the neighbors of current_vertex.
RECURSIVE dijkstra_for(_, _, _, _, _, _)
dijkstra_for(neighbors, i, current_distance, current_vertex, visited, acc) ==
    IF i > Len(neighbors) THEN acc
    ELSE LET neighbor     == neighbors[i][1]
             weight       == neighbors[i][2]
             new_distance == current_distance + weight
         IN IF neighbor \in visited
            THEN dijkstra_for(neighbors, i + 1, current_distance, current_vertex, visited, acc)
            ELSE IF FloatLess(<<new_distance>>, DictGet(acc.distances, neighbor))
            THEN dijkstra_for(neighbors, i + 1, current_distance, current_vertex, visited,
                    [distances    |-> DictSet(acc.distances, neighbor, <<new_distance>>),
                     predecessors |-> DictSet(acc.predecessors, neighbor, <<current_vertex>>),
                     pq           |-> acc.pq \cup {<<new_distance, neighbor>>}])
            ELSE dijkstra_for(neighbors, i + 1, current_distance, current_vertex, visited, acc)

\* The while loop of dijkstra.
RECURSIVE dijkstra_while(_, _, _, _, _, _)
dijkstra_while(g, end_vertex, pq, visited, distances, predecessors) ==
    IF pq = {} THEN [distances |-> distances, predecessors |-> predecessors]
    ELSE
        LET e                == heappop(pq)
            current_distance == e[1]
            current_vertex   == e[2]
            pq1              == pq \ {e}
        IN IF current_vertex \in visited
           THEN dijkstra_while(g, end_vertex, pq1, visited, distances, predecessors)
           ELSE IF Truthy(end_vertex) /\ current_vertex = end_vertex[1]
           THEN [distances |-> distances, predecessors |-> predecessors]
           ELSE LET acc == dijkstra_for(get_neighbors(g, current_vertex), 1,
                                current_distance, current_vertex,
                                visited \cup {current_vertex},
                                [distances |-> distances, predecessors |-> predecessors,
                                 pq |-> pq1])
                IN dijkstra_while(g, end_vertex, acc.pq, visited \cup {current_vertex},
                                  acc.distances, acc.predecessors)

\* The local variables of dijkstra when it enters its while loop.
\* finalized is not a variable of the code: it lists every vertex added to
\* visited so far, each with the current_distance it was popped with and
\* its predecessors entry at that moment.
dijkstra_locals(g, start_vertex) ==
    [pq           |-> {<<0, start_vertex>>},
     visited      |-> {},
     distances    |-> DictSet(DictFromKeys(get_vertices(g), inf), start_vertex, <<0>>),
     predecessors |-> DictFromKeys(get_vertices(g), None),
     finalized    |-> <<>>]

\* Variant of the loop body that does not skip a popped vertex that is
\* already visited.
dijkstra_iteration_no_skip(g, locals) ==
    LET e                == heappop(locals.pq)
        current_distance == e[1]
        current_vertex   == e[2]
        acc == dijkstra_for(get_neighbors(g, current_vertex), 1,
                    current_distance, current_vertex,
                    locals.visited \cup {current_vertex},
                    [distances |-> locals.distances, predecessors |-> locals.predecessors,
                     pq |-> locals.pq \ {e}])
    IN [pq           |-> acc.pq,
        visited      |-> locals.visited \cup {current_vertex},
        distances    |-> acc.distances,
        predecessors |-> acc.predecessors,
        finalized    |-> Append(locals.finalized,
                            <<current_vertex, current_distance,
                              DictGet(locals.predecessors, current_vertex)>>)]

\* One pass through the body of the while loop of dijkstra called without
\* an end vertex.
dijkstra_iteration(g, locals) ==
    LET e                == heappop(locals.pq)
        current_distance == e[1]
        current_vertex   == e[2]
    IN IF current_vertex \in locals.visited
       THEN [locals EXCEPT !.pq = locals.pq \ {e}]
       ELSE LET acc == dijkstra_for(get_neighbors(g, current_vertex), 1,
                            current_distance, current_vertex,
                            locals.visited \cup {current_vertex},
                            [distances |-> locals.distances,
                             predecessors |-> locals.predecessors,
                             pq |-> locals.pq \ {e}])
            IN [pq           |-> acc.pq,
                visited      |-> locals.visited \cup {current_vertex},
                distances    |-> acc.distances,
                predecessors |-> acc.predecessors,
                finalized    |-> Append(locals.finalized,
                                    <<current_vertex, current_distance,
                                      DictGet(locals.predecessors, current_vertex)>>)]

\* Variant without the check that start_vertex is in the graph.
dijkstra_unguarded(g, start_vertex, end_vertex, verbose) ==
    LET r == dijkstra_while(g, end_vertex, {<<0, start_vertex>>}, {},
                 DictSet(DictFromKeys(get_vertices(g), inf), start_vertex, <<0>>),
                 DictFromKeys(get_vertices(g), None))
    IN [returns      |-> TRUE,
        distances    |-> r.distances,
        predecessors |-> r.predecessors]

\* dijkstra: end_vertex is None or <<v>>.  returns tells whether the call
\* returns; distances and predecessors are what it returns then.
dijkstra(g, start_vertex, end_vertex, verbose) ==
    IF ~InVertices(g, start_vertex)
    THEN [returns |-> TRUE, distances |-> <<>>, predecessors |-> <<>>]
    ELSE LET r == dijkstra_while(g, end_vertex, {<<0, start_vertex>>}, {},
                      DictSet(DictFromKeys(get_vertices(g), inf), start_vertex, <<0>>),
                      DictFromKeys(get_vertices(g), None))
         IN [returns      |-> verbose => results_printed(r.distances, r.predecessors,
                                                         start_vertex),
             distances    |-> r.distances,
             predecessors |-> r.predecessors]

\* The loop of bellman_ford over the neighbors of vertex; distances[vertex]
\* is read again for every neighbor.
RECURSIVE bellman_ford_neighbors(_, _, _, _)
bellman_ford_neighbors(neighbors, i, vertex, acc) ==
    IF i > Len(neighbors) THEN acc
    ELSE LET neighbor     == neighbors[i][1]
             weight       == neighbors[i][2]
             new_distance == DictGet(acc.distances, vertex)[1] + weight
         IN IF FloatLess(<<new_distance>>, DictGet(acc.distances, neighbor))
            THEN bellman_ford_neighbors(neighbors, i + 1, vertex,
                    [distances    |-> DictSet(acc.distances, neighbor, <<new_distance>>),
                     predecessors |-> DictSet(acc.predecessors, neighbor, <<vertex>>),
                     updated      |-> TRUE])
            ELSE bellman_ford_neighbors(neighbors, i + 1, vertex, acc)

\* One pass of bellman_ford over the vertices.
RECURSIVE bellman_ford_vertices(_, _, _, _)
bellman_ford_vertices(g, vertices, j, acc) ==
    IF j > Len(vertices) THEN acc
    ELSE IF DictGet(acc.distances, vertices[j]) = inf
    THEN bellman_ford_vertices(g, vertices, j + 1, acc)
    ELSE bellman_ford_vertices(g, vertices, j + 1,
            bellman_ford_neighbors(get_neighbors(g, vertices[j]), 1, vertices[j], acc))

\* `for iteration in range(len(vertices) - 1)` with its early exit.
RECURSIVE bellman_ford_iterations(_, _, _, _)
bellman_ford_iterations(g, vertices, iteration, acc) ==
    IF iteration >= Len(vertices) - 1 THEN acc
    ELSE LET pass == bellman_ford_vertices(g, vertices, 1,
                        [distances |-> acc.distances, predecessors |-> acc.predecessors,
                         updated |-> FALSE])
         IN IF ~pass.updated THEN pass
            ELSE bellman_ford_iterations(g, vertices, iteration + 1, pass)

\* Variant that finds no edge to relax.
bellman_ford_check_skipped(g, vertices, distances) == FALSE

\* The check for negative cycles: some edge can still be relaxed.
bellman_ford_check(g, vertices, distances) ==
    \E j \in 1..Len(vertices) :
        /\ DictGet(distances, vertices[j]) # inf
        /\ \E i \in 1..Len(get_neighbors(g, vertices[j])) :
              LET e == get_neighbors(g, vertices[j])[i]
              IN FloatLess(<<DictGet(distances, vertices[j])[1] + e[2]>>,
                           DictGet(distances, e[1]))

\* Variant that makes one pass fewer over the vertices.
bellman_ford_one_pass_fewer(g, start_vertex, verbose) ==
    IF ~InVertices(g, start_vertex)
    THEN [returns |-> TRUE, distances |-> <<>>, predecessors |-> <<>>,
          has_negative_cycle |-> FALSE]
    ELSE LET vertices == get_vertices(g)
             r == bellman_ford_iterations(g, vertices, 1,
                      [distances    |-> DictSet(DictFromKeys(vertices, inf), start_vertex, <<0>>),
                       predecessors |-> DictFromKeys(vertices, None),
                       updated      |-> FALSE])
         IN [returns            |-> verbose => results_printed(r.distances, r.predecessors,
                                                               start_vertex),
             distances          |-> r.distances,
             predecessors       |-> r.predecessors,
             has_negative_cycle |-> bellman_ford_check(g, vertices, r.distances)]

\* bellman_ford: returns tells whether the call returns.
bellman_ford(g, start_vertex, verbose) ==
    IF ~InVertices(g, start_vertex)
    THEN [returns |-> TRUE, distances |-> <<>>, predecessors |-> <<>>,
          has_negative_cycle |-> FALSE]
    ELSE LET vertices == get_vertices(g)
             r == bellman_ford_iterations(g, vertices, 0,
                      [distances    |-> DictSet(DictFromKeys(vertices, inf), start_vertex, <<0>>),
                       predecessors |-> DictFromKeys(vertices, None),
                       updated      |-> FALSE])
         IN [returns            |-> verbose => results_printed(r.distances, r.predecessors,
                                                               start_vertex),
             distances          |-> r.distances,
             predecessors       |-> r.predecessors,
             has_negative_cycle |-> bellman_ford_check(g, vertices, r.distances)]

\* The for loop of bfs_shortest_path over the neighbors of the vertex
\* dequeued with path; found is the path returned from inside the loop.
RECURSIVE bfs_shortest_path_for(_, _, _, _, _)
bfs_shortest_path_for(neighbors, i, end_vertex, path, acc) ==
    IF i > Len(neighbors) THEN acc
    ELSE LET neighbor == neighbors[i][1]
         IN IF neighbor = end_vertex
            THEN [acc EXCEPT !.found = <<Append(path, neighbor)>>]
            ELSE IF neighbor \notin acc.visited
            THEN bfs_shortest_path_for(neighbors, i + 1, end_vertex, path,
                    [found   |-> None,
                     visited |-> acc.visited \cup {neighbor},
                     queue   |-> Append(acc.queue, <<neighbor, Append(path, neighbor)>>)])
            ELSE bfs_shortest_path_for(neighbors, i + 1, end_vertex, path, acc)

\* The while loop of bfs_shortest_path.
RECURSIVE bfs_shortest_path_while(_, _, _, _)
bfs_shortest_path_while(g, end_vertex, queue, visited) ==
    IF queue = <<>> THEN <<>>
    ELSE LET vertex == Head(queue)[1]
             path   == Head(queue)[2]
             acc    == bfs_shortest_path_for(get_neighbors(g, vertex), 1, end_vertex, path,
                          [found |-> None, visited |-> visited, queue |-> Tail(queue)])
         IN IF acc.found # None THEN acc.found[1]
            ELSE bfs_shortest_path_while(g, end_vertex, acc.queue, acc.visited)

\* Variant that overlooks an edge from start_vertex straight to end_vertex
\* and searches on from the neighbors of start_vertex.
bfs_shortest_path_from_neighbors(g, start_vertex, end_vertex) ==
    IF ~InVertices(g, start_vertex) \/ ~InVertices(g, end_vertex) THEN <<>>
    ELSE IF start_vertex = end_vertex THEN <<start_vertex>>
    ELSE LET acc == bfs_shortest_path_for(get_neighbors(g, start_vertex), 1, start_vertex,
                        <<start_vertex>>,
                        [found |-> None, visited |-> {start_vertex}, queue |-> <<>>])
         IN bfs_shortest_path_while(g, end_vertex, acc.queue, acc.visited \ {end_vertex})

bfs_shortest_path(g, start_vertex, end_vertex) ==
    IF ~InVertices(g, start_vertex) \/ ~InVertices(g, end_vertex) THEN <<>>
    ELSE IF start_vertex = end_vertex THEN <<start_vertex>>
    ELSE bfs_shortest_path_while(g, end_vertex,
            <<<<start_vertex, <<start_vertex>>>>>>, {start_vertex})

\* ------------------------------------------------------------------------
\* State
\* ------------------------------------------------------------------------

VARIABLES
    list_graph,     \* the GraphAdjacencyList object
    matrix_graph,   \* the GraphAdjacencyMatrix object
    call,           \* the last call made on both objects: its name and arguments
    ret_list,       \* what the last mutating call returned on list_graph
    ret_matrix,     \* what the last mutating call returned on matrix_graph
    order_list,     \* what the last traversal returned on list_graph
    order_matrix,   \* what the last traversal returned on matrix_graph
    prev_list,      \* list_graph as it was before the last call
    prev_matrix,    \* matrix_graph as it was before the last call
    ncalls,         \* number of mutating calls made so far
    result_list,    \* what the last algorithm call computed on list_graph
    result_matrix   \* what the last algorithm call computed on matrix_graph

vars == <<list_graph, matrix_graph, call, ret_list, ret_matrix,
          order_list, order_matrix, prev_list, prev_matrix, ncalls,
          result_list, result_matrix>>

Init ==
    \E directed \in BOOLEAN :
        /\ list_graph = GraphAdjacencyList_init(directed)
        /\ matrix_graph = GraphAdjacencyMatrix_init(directed)
        /\ prev_list = GraphAdjacencyList_init(directed)
        /\ prev_matrix = GraphAdjacencyMatrix_init(directed)
        /\ call = [name |-> "__init__", args |-> <<>>]
        /\ ret_list = FALSE
        /\ ret_matrix = FALSE
        /\ order_list = <<>>
        /\ order_matrix = <<>>
        /\ ncalls = 0
        /\ result_list = None
        /\ result_matrix = None

\* A mutating call: the same call on both objects.
MutateWithin(limit, name, args, rl, rm) ==
    /\ ncalls < limit
    /\ ncalls' = ncalls + 1
    /\ call' = [name |-> name, args |-> args]
    /\ prev_list' = list_graph
    /\ prev_matrix' = matrix_graph
    /\ list_graph' = rl.graph
    /\ matrix_graph' = rm.graph
    /\ ret_list' = rl.ret
    /\ ret_matrix' = rm.ret
    /\ order_list' = <<>>
    /\ order_matrix' = <<>>
    /\ result_list' = None
    /\ result_matrix' = None

Mutate(name, args, rl, rm) == MutateWithin(MaxCalls, name, args, rl, rm)

\* A traversal: the same traversal of both objects, which it only reads.
Traverse(name, args, ol, om) ==
    /\ UNCHANGED ncalls
    /\ call' = [name |-> name, args |-> args]
    /\ prev_list' = list_graph
    /\ prev_matrix' = matrix_graph
    /\ UNCHANGED <<list_graph, matrix_graph>>
    /\ ret_list' = FALSE
    /\ ret_matrix' = FALSE
    /\ order_list' = ol
    /\ order_matrix' = om
    /\ result_list' = None
    /\ result_matrix' = None

\* A call of any other algorithm on both objects, which it only reads: rl
\* and rm are what it returns, together with what it prints when the
\* property is about that.
Compute(name, args, rl, rm) ==
    /\ UNCHANGED ncalls
    /\ call' = [name |-> name, args |-> args]
    /\ prev_list' = list_graph
    /\ prev_matrix' = matrix_graph
    /\ UNCHANGED <<list_graph, matrix_graph>>
    /\ ret_list' = FALSE
    /\ ret_matrix' = FALSE
    /\ order_list' = <<>>
    /\ order_matrix' = <<>>
    /\ result_list' = rl
    /\ result_matrix' = rm

AddVertex ==
    \E vertex \in VertexPool :
        Mutate("add_vertex", <<vertex>>,
               add_vertex(list_graph, vertex), add_vertex(matrix_graph, vertex))

AddEdge ==
    \E from_vertex \in VertexPool, to_vertex \in VertexPool, weight \in Weights :
        Mutate("add_edge", <<from_vertex, to_vertex, weight>>,
               add_edge(list_graph, from_vertex, to_vertex, weight),
               add_edge(matrix_graph, from_vertex, to_vertex, weight))

RemoveEdge ==
    \E from_vertex \in VertexPool, to_vertex \in VertexPool :
        Mutate("remove_edge", <<from_vertex, to_vertex>>,
               remove_edge(list_graph, from_vertex, to_vertex),
               remove_edge(matrix_graph, from_vertex, to_vertex))

DepthFirstSearch ==
    \E start_vertex \in VertexPool :
        Traverse("depth_first_search", <<start_vertex>>,
                 depth_first_search(list_graph, start_vertex),
                 depth_first_search(matrix_graph, start_vertex))

DepthFirstSearchRecursive ==
    \E start_vertex \in VertexPool :
        Traverse("depth_first_search_recursive", <<start_vertex>>,
                 depth_first_search_recursive(list_graph, start_vertex),
                 depth_first_search_recursive(matrix_graph, start_vertex))

BreadthFirstSearch ==
    \E start_vertex \in VertexPool :
        Traverse("breadth_first_search", <<start_vertex>>,
                 breadth_first_search(list_graph, start_vertex),
                 breadth_first_search(matrix_graph, start_vertex))

\* The mutating calls, with every weight of Weights.
Next ==
    \/ AddVertex
    \/ AddEdge
    \/ RemoveEdge

Spec == Init /\ [][Next]_vars

\* The same calls with add_edge weights restricted to non-zero values.
AddEdgeNonZero ==
    \E from_vertex \in VertexPool, to_vertex \in VertexPool, weight \in Weights \ {0} :
        Mutate("add_edge", <<from_vertex, to_vertex, weight>>,
               add_edge(list_graph, from_vertex, to_vertex, weight),
               add_edge(matrix_graph, from_vertex, to_vertex, weight))

NextNonZero ==
    \/ AddVertex
    \/ AddEdgeNonZero
    \/ RemoveEdge

SpecNonZero == Init /\ [][NextNonZero]_vars

\* Graphs built with add_vertex and add_edge(from_vertex, to_vertex), the
\* weight left at its default of 1, and traversed at any point.
BuildVertex ==
    \E vertex \in VertexPool :
        MutateWithin(MaxBuildCalls, "add_vertex", <<vertex>>,
               add_vertex(list_graph, vertex), add_vertex(matrix_graph, vertex))

BuildEdge ==
    \E from_vertex \in VertexPool, to_vertex \in VertexPool :
        MutateWithin(MaxBuildCalls, "add_edge", <<from_vertex, to_vertex, 1>>,
               add_edge(list_graph, from_vertex, to_vertex, 1),
               add_edge(matrix_graph, from_vertex, to_vertex, 1))

NextTraversal ==
    \/ BuildVertex
    \/ BuildEdge
    \/ DepthFirstSearch
    \/ DepthFirstSearchRecursive
    \/ BreadthFirstSearch

SpecTraversal == Init /\ [][NextTraversal]_vars

\* with_vertices and with_edges make the add_vertex and add_edge calls of a
\* construction loop (`for v in vertices: graph.add_vertex(v)`,
\* `for u, v, w in edges: graph.add_edge(u, v, w)`) on g.
RECURSIVE with_vertices(_, _, _)
with_vertices(g, vertices, i) ==
    IF i > Len(vertices) THEN g
    ELSE with_vertices(add_vertex(g, vertices[i]).graph, vertices, i + 1)

RECURSIVE with_edges(_, _, _)
with_edges(g, edges, i) ==
    IF i > Len(edges) THEN g
    ELSE with_edges(add_edge(g, edges[i][1], edges[i][2], edges[i][3]).graph, edges, i + 1)

\* The state after the construction loops have run on a fresh pair of graphs.
Constructed(directed, vertices, edges) ==
    LET gl == with_edges(with_vertices(GraphAdjacencyList_init(directed), vertices, 1), edges, 1)
        gm == with_edges(with_vertices(GraphAdjacencyMatrix_init(directed), vertices, 1), edges, 1)
    IN /\ list_graph = gl
       /\ matrix_graph = gm
       /\ prev_list = gl
       /\ prev_matrix = gm
       /\ call = [name |-> "__init__", args |-> <<>>]
       /\ ret_list = FALSE
       /\ ret_matrix = FALSE
       /\ order_list = <<>>
       /\ order_matrix = <<>>
       /\ ncalls = Len(vertices) + Len(edges)
       /\ result_list = None
       /\ result_matrix = None

\* The vertex lists of the constructed graphs: all three labels, or two of
\* them so that the third is a label that is not in the graph.
VertexLists == {<<1, 2, 10>>, <<2, 1>>}

\* The edge lists of the constructed graphs: at most MaxPathEdges edges
\* (u, v, w) with w in weights, no pair twice, listed in ascending order of
\* (u, v); for an undirected graph a pair is listed with u <= v only,
\* add_edge storing the other direction itself.
EdgeLists(directed, weights) ==
    LET Edges == {e \in VertexPool \X VertexPool \X weights : directed \/ e[1] <= e[2]}
        Ascending(es) ==
            \A i \in 1..(Len(es) - 1) :
                \/ es[i][1] < es[i + 1][1]
                \/ es[i][1] = es[i + 1][1] /\ es[i][2] < es[i + 1][2]
    IN UNION {{es \in [1..n -> Edges] : Ascending(es)} : n \in 0..MaxPathEdges}

\* Graphs constructed with weighted edges.
InitShortestPath ==
    \E directed \in BOOLEAN, vertices \in VertexLists :
        \E edges \in EdgeLists(directed, PathWeights) :
            Constructed(directed, vertices, edges)

\* Graphs constructed with every weight left at its default of 1.
InitUnweighted ==
    \E directed \in BOOLEAN, vertices \in VertexLists :
        \E edges \in EdgeLists(directed, {1}) :
            Constructed(directed, vertices, edges)

\* The labels passed to the algorithms: the pool and the vertices of the
\* graph.
Labels == VertexPool \cup SeqToSet(get_vertices(list_graph))

\* The last call constructed the graphs or wrote to them.  The algorithms
\* below leave the graphs as they are, so a call made after another
\* algorithm ends in the same state as the same call made in its place:
\* they are called when the graphs are Fresh.
Fresh == call.name \in {"__init__", "add_vertex", "add_edge", "remove_edge"}

Dijkstra ==
    \E start_vertex \in Labels, verbose \in BOOLEAN :
        /\ Fresh
        /\ Compute("dijkstra", <<start_vertex, verbose>>,
                dijkstra(list_graph, start_vertex, None, verbose),
                dijkstra(matrix_graph, start_vertex, None, verbose))

BellmanFord ==
    \E start_vertex \in Labels, verbose \in BOOLEAN :
        /\ Fresh
        /\ Compute("bellman_ford", <<start_vertex, verbose>>,
                bellman_ford(list_graph, start_vertex, verbose),
                bellman_ford(matrix_graph, start_vertex, verbose))

NextShortestPath ==
    \/ Dijkstra
    \/ BellmanFord

\* dijkstra and bellman_ford called on constructed graphs.
SpecShortestPath == InitShortestPath /\ [][NextShortestPath]_vars

\* get_path(predecessors, start_vertex, end_vertex) on the predecessor maps
\* that the dijkstra or bellman_ford call just made has returned, with the
\* start vertex of that call; the third argument recorded is the name of
\* that call.
GetPath ==
    /\ call.name \in {"dijkstra", "bellman_ford"}
    /\ result_list.returns
    /\ result_matrix.returns
    /\ \E end_vertex \in Labels :
          Compute("get_path", <<call.args[1], end_vertex, call.name>>,
                  get_path(result_list.predecessors, call.args[1], end_vertex),
                  get_path(result_matrix.predecessors, call.args[1], end_vertex))

BfsShortestPath ==
    \E start_vertex \in Labels, end_vertex \in Labels :
        /\ Fresh
        /\ Compute("bfs_shortest_path", <<start_vertex, end_vertex>>,
                bfs_shortest_path(list_graph, start_vertex, end_vertex),
                bfs_shortest_path(matrix_graph, start_vertex, end_vertex))

\* max_paths is 0, 1, 2 or the default of 10.
FindAllPaths ==
    \E start_vertex \in Labels, end_vertex \in Labels, max_paths \in {0, 1, 2, 10} :
        /\ Fresh
        /\ Compute("find_all_paths", <<start_vertex, end_vertex, max_paths>>,
                find_all_paths(list_graph, start_vertex, end_vertex, max_paths),
                find_all_paths(matrix_graph, start_vertex, end_vertex, max_paths))

NextPaths ==
    \/ Dijkstra
    \/ BellmanFord
    \/ GetPath

\* dijkstra, bellman_ford and get_path called on constructed graphs.
SpecPaths == InitShortestPath /\ [][NextPaths]_vars

\* The graph of demo_basic_operations: vertices 'A'..'E', here 1..5 (the
\* labels are only compared, and 1..5 are ordered as 'A'..'E' are, both as
\* values and as strings), with its seven weighted undirected edges.
DemoVertices == <<1, 2, 3, 4, 5>>

DemoEdges ==
    << <<1, 2, 4>>, <<1, 3, 2>>, <<2, 3, 1>>, <<2, 4, 5>>,
       <<3, 4, 8>>, <<3, 5, 10>>, <<4, 5, 2>> >>

InitDemo == Constructed(FALSE, DemoVertices, DemoEdges)

NextDemo ==
    \/ Dijkstra
    \/ BellmanFord
    \/ GetPath
    \/ BfsShortestPath

\* The shortest-path functions called on the graph of
\* demo_basic_operations.
SpecDemo == InitDemo /\ [][NextDemo]_vars

NextBfsShortestPath ==
    \/ BfsShortestPath

\* bfs_shortest_path called on constructed graphs.
SpecBfsShortestPath == InitShortestPath /\ [][NextBfsShortestPath]_vars

NextAlgorithms ==
    \/ DepthFirstSearch
    \/ DepthFirstSearchRecursive
    \/ BreadthFirstSearch
    \/ Dijkstra
    \/ BellmanFord
    \/ FindAllPaths

\* The algorithms that take a start vertex, called on constructed graphs
\* with labels that may or may not be vertices.
SpecAlgorithms == InitUnweighted /\ [][NextAlgorithms]_vars

\* Graphs built the same way and tested for connectivity at any point.
IsConnected ==
    Compute("is_connected", <<>>, is_connected(list_graph), is_connected(matrix_graph))

NextConnectivity ==
    \/ BuildVertex
    \/ BuildEdge
    \/ IsConnected

SpecConnectivity == Init /\ [][NextConnectivity]_vars

\* Constructed graphs of three vertices or fewer, and the graph of
\* demo_basic_operations.
InitUnweightedOrDemo ==
    \/ InitUnweighted
    \/ InitDemo

NextFindAllPaths ==
    \/ FindAllPaths

\* find_all_paths called on constructed graphs.
SpecFindAllPaths == InitUnweightedOrDemo /\ [][NextFindAllPaths]_vars

\* Vertices numbered from 0, as `[i for i in range(num_vertices)]` numbers
\* them: the label 10 of the constructed graphs becomes 0.
FromZero(vertex) == IF vertex = 10 THEN 0 ELSE vertex

\* Graphs constructed on vertices numbered from 0, with positive weights.
InitFromZero ==
    \E directed \in BOOLEAN, vertices \in VertexLists :
        \E edges \in EdgeLists(directed, PathWeights \ {-1}) :
            Constructed(directed,
                [i \in 1..Len(vertices) |-> FromZero(vertices[i])],
                [i \in 1..Len(edges) |->
                    <<FromZero(edges[i][1]), FromZero(edges[i][2]), edges[i][3]>>])

\* dijkstra(graph, start_vertex, end_vertex, verbose) with an end vertex
\* supplied, recorded as the third argument.
DijkstraTo ==
    \E start_vertex \in Labels, end_vertex \in Labels, verbose \in BOOLEAN :
        /\ Fresh
        /\ Compute("dijkstra", <<start_vertex, verbose, <<end_vertex>>>>,
                dijkstra(list_graph, start_vertex, <<end_vertex>>, verbose),
                dijkstra(matrix_graph, start_vertex, <<end_vertex>>, verbose))

NextDijkstraTo ==
    \/ DijkstraTo

\* dijkstra called with an end vertex on constructed graphs.
SpecDijkstraTo == InitFromZero /\ [][NextDijkstraTo]_vars

\* breadth_first_search followed through its loop.  While the call is
\* running, result_list and result_matrix hold its local variables.
BfsRunning == call.name = "breadth_first_search" /\ result_list # None

\* The call up to its while loop; for a start_vertex that is not in the
\* graph it returns at once.
BfsBegin ==
    \E start_vertex \in Labels :
        /\ Fresh
        /\ IF InVertices(list_graph, start_vertex) /\ InVertices(matrix_graph, start_vertex)
           THEN Compute("breadth_first_search", <<start_vertex>>,
                        bfs_locals(start_vertex), bfs_locals(start_vertex))
           ELSE Traverse("breadth_first_search", <<start_vertex>>,
                         breadth_first_search(list_graph, start_vertex),
                         breadth_first_search(matrix_graph, start_vertex))

\* One pass through the loop body on each object whose queue is not empty.
BfsIteration ==
    /\ BfsRunning
    /\ result_list.queue # <<>> \/ result_matrix.queue # <<>>
    /\ Compute("breadth_first_search", call.args,
               IF result_list.queue # <<>>
               THEN bfs_iteration(list_graph, result_list) ELSE result_list,
               IF result_matrix.queue # <<>>
               THEN bfs_iteration(matrix_graph, result_matrix) ELSE result_matrix)

\* `while queue` ends and traversal_order is returned.
BfsReturn ==
    /\ BfsRunning
    /\ result_list.queue = <<>>
    /\ result_matrix.queue = <<>>
    /\ Traverse("breadth_first_search", call.args,
                result_list.traversal_order, result_matrix.traversal_order)

NextBfsSteps ==
    \/ BfsBegin
    \/ BfsIteration
    \/ BfsReturn

\* breadth_first_search run step by step on constructed graphs.
SpecBfsSteps == InitUnweightedOrDemo /\ [][NextBfsSteps]_vars

\* dijkstra(graph, start_vertex, verbose=False) followed through its loop.
\* While the call is running, result_list and result_matrix hold its local
\* variables.
DijkstraRunning == call.name = "dijkstra" /\ "pq" \in DOMAIN result_list

\* The call up to its while loop; for a start_vertex that is not in the
\* graph it returns at once.
DijkstraBegin ==
    \E start_vertex \in Labels :
        /\ Fresh
        /\ IF InVertices(list_graph, start_vertex) /\ InVertices(matrix_graph, start_vertex)
           THEN Compute("dijkstra", <<start_vertex, FALSE>>,
                        dijkstra_locals(list_graph, start_vertex),
                        dijkstra_locals(matrix_graph, start_vertex))
           ELSE Compute("dijkstra", <<start_vertex, FALSE>>,
                        dijkstra(list_graph, start_vertex, None, FALSE),
                        dijkstra(matrix_graph, start_vertex, None, FALSE))

\* One pass through the loop body on each object whose pq is not empty.
DijkstraIteration ==
    /\ DijkstraRunning
    /\ result_list.pq # {} \/ result_matrix.pq # {}
    /\ Compute("dijkstra", call.args,
               IF result_list.pq # {}
               THEN dijkstra_iteration(list_graph, result_list) ELSE result_list,
               IF result_matrix.pq # {}
               THEN dijkstra_iteration(matrix_graph, result_matrix) ELSE result_matrix)

\* `while pq` ends and the two maps are returned.
DijkstraReturn ==
    /\ DijkstraRunning
    /\ result_list.pq = {}
    /\ result_matrix.pq = {}
    /\ Compute("dijkstra", call.args,
               [returns |-> TRUE, distances |-> result_list.distances,
                predecessors |-> result_list.predecessors],
               [returns |-> TRUE, distances |-> result_matrix.distances,
                predecessors |-> result_matrix.predecessors])

NextDijkstraSteps ==
    \/ DijkstraBegin
    \/ DijkstraIteration
    \/ DijkstraReturn

\* dijkstra run step by step on constructed graphs.
SpecDijkstraSteps == InitShortestPath /\ [][NextDijkstraSteps]_vars

\* A graph as its constructor leaves it, or a constructed one.
InitBoundary ==
    \/ Init
    \/ InitUnweighted

NextBoundary ==
    \/ DepthFirstSearch
    \/ DepthFirstSearchRecursive
    \/ BreadthFirstSearch
    \/ FindAllPaths
    \/ BfsShortestPath
    \/ Dijkstra
    \/ BellmanFord
    \/ IsConnected

\* Every algorithm called on a graph that has no vertices yet, and on
\* constructed graphs.
SpecBoundary == InitBoundary /\ [][NextBoundary]_vars

\* ------------------------------------------------------------------------
\* Vocabulary of the properties
\* ------------------------------------------------------------------------

VertexSet(g) == SeqToSet(get_vertices(g))

\* The ordered pairs joined by an edge, as has_edge reports them.
EdgeSet(g) == {e \in VertexPool \X VertexPool : has_edge(g, e[1], e[2])}

\* has_edge and get_edge_weight agree on the pair (a, b) in g and h.
SameEdge(g, h, a, b) ==
    /\ has_edge(g, a, b) = has_edge(h, a, b)
    /\ get_edge_weight(g, a, b) = get_edge_weight(h, a, b)

IsTraversal ==
    call.name \in {"depth_first_search", "depth_first_search_recursive",
                   "breadth_first_search"}

\* ------------------------------------------------------------------------
\* C1  Mirror invariant.  In an undirected graph of either representation,
\* after any sequence of add_vertex, add_edge and remove_edge calls, for all
\* u, v: has_edge(u,v) = has_edge(v,u) and
\* get_edge_weight(u,v) = get_edge_weight(v,u).
\* ------------------------------------------------------------------------
Mirrored(g) ==
    \A u \in VertexPool, v \in VertexPool :
        /\ has_edge(g, u, v) = has_edge(g, v, u)
        /\ get_edge_weight(g, u, v) = get_edge_weight(g, v, u)

C1_MirrorInvariant ==
    ~list_graph.directed => Mirrored(list_graph) /\ Mirrored(matrix_graph)

\* An undirected edge between two different vertices has just been re-added
\* with a new non-zero weight, and is present in both directions in both
\* representations.
C1_Witness ==
    /\ ~list_graph.directed
    /\ call.name = "add_edge"
    /\ call.args[1] # call.args[2]
    /\ call.args[3] # 0
    /\ has_edge(prev_list, call.args[1], call.args[2])
    /\ get_edge_weight(prev_list, call.args[1], call.args[2]) # <<call.args[3]>>
    /\ has_edge(list_graph, call.args[2], call.args[1])
    /\ has_edge(matrix_graph, call.args[2], call.args[1])

\* ------------------------------------------------------------------------
\* C2  Edge upsert.  As claimed: if edge (u,v) exists, add_edge(u,v,w2)
\* returns true, afterwards get_edge_weight(u,v) = w2 (and
\* get_edge_weight(v,u) = w2 when undirected), get_edge_count() is as
\* before, and every other edge keeps its weight.
\* ------------------------------------------------------------------------
Upserted(g, prev, ret, u, v, w2) ==
    has_edge(prev, u, v) =>
        /\ ret = TRUE
        /\ get_edge_weight(g, u, v) = <<w2>>
        /\ (~g.directed => get_edge_weight(g, v, u) = <<w2>>)
        /\ get_edge_count(g) = get_edge_count(prev)
        /\ \A a \in VertexPool, b \in VertexPool :
              (<<a, b>> # <<u, v>> /\ (g.directed \/ <<a, b>> # <<v, u>>))
                  => SameEdge(g, prev, a, b)

C2_EdgeUpsert_AsClaimed ==
    call.name = "add_edge" =>
        /\ Upserted(list_graph, prev_list, ret_list,
                    call.args[1], call.args[2], call.args[3])
        /\ Upserted(matrix_graph, prev_matrix, ret_matrix,
                    call.args[1], call.args[2], call.args[3])

\* C2 as amended: the statement holds for GraphAdjacencyList with any
\* weight w2 and for GraphAdjacencyMatrix with any w2 other than 0.
C2_EdgeUpsert ==
    call.name = "add_edge" =>
        /\ Upserted(list_graph, prev_list, ret_list,
                    call.args[1], call.args[2], call.args[3])
        /\ call.args[3] # 0 =>
              Upserted(matrix_graph, prev_matrix, ret_matrix,
                       call.args[1], call.args[2], call.args[3])

\* An existing edge has just been re-added with a different non-zero weight
\* while another edge is present.
C2_Witness ==
    /\ call.name = "add_edge"
    /\ call.args[3] # 0
    /\ has_edge(prev_list, call.args[1], call.args[2])
    /\ has_edge(prev_matrix, call.args[1], call.args[2])
    /\ get_edge_weight(prev_matrix, call.args[1], call.args[2]) # <<call.args[3]>>
    /\ get_edge_weight(matrix_graph, call.args[1], call.args[2]) = <<call.args[3]>>
    /\ get_edge_count(list_graph) >= 2

\* ------------------------------------------------------------------------
\* C3  Idempotent vertex add.  add_vertex(v) on a graph that contains v
\* returns false and leaves the vertex set, the vertex count, every edge and
\* every weight unchanged; on a new v it returns true, increases the vertex
\* count by exactly one and adds no edge.
\* ------------------------------------------------------------------------
VertexAdded(g, prev, ret, v) ==
    IF v \in VertexSet(prev)
    THEN /\ ret = FALSE
         /\ get_vertices(g) = get_vertices(prev)
         /\ get_vertex_count(g) = get_vertex_count(prev)
         /\ get_edge_count(g) = get_edge_count(prev)
         /\ \A a \in VertexPool, b \in VertexPool : SameEdge(g, prev, a, b)
         /\ \A a \in VertexPool : get_neighbors(g, a) = get_neighbors(prev, a)
    ELSE /\ ret = TRUE
         /\ get_vertex_count(g) = get_vertex_count(prev) + 1
         /\ VertexSet(g) = VertexSet(prev) \cup {v}
         /\ get_edge_count(g) = get_edge_count(prev)
         /\ \A a \in VertexPool, b \in VertexPool : SameEdge(g, prev, a, b)
         /\ get_neighbors(g, v) = <<>>

C3_IdempotentVertexAdd ==
    call.name = "add_vertex" =>
        /\ VertexAdded(list_graph, prev_list, ret_list, call.args[1])
        /\ VertexAdded(matrix_graph, prev_matrix, ret_matrix, call.args[1])

\* add_vertex has just been called on a vertex that is already present and
\* has an edge.
C3_Witness ==
    /\ call.name = "add_vertex"
    /\ ret_list = FALSE
    /\ ret_matrix = FALSE
    /\ \E b \in VertexPool :
          /\ has_edge(list_graph, call.args[1], b)
          /\ has_edge(matrix_graph, call.args[1], b)

\* ------------------------------------------------------------------------
\* C4  At most one stored edge per ordered pair.  After any sequence of
\* add_vertex / add_edge / remove_edge calls on a GraphAdjacencyList
\* (directed or undirected, self-loops allowed), no vertex's get_neighbors
\* sequence contains the same neighbor more than once.
\* ------------------------------------------------------------------------
C4_NoDuplicateNeighbor ==
    \A v \in VertexPool :
        LET nbrs == get_neighbors(list_graph, v)
        IN \A i \in 1..Len(nbrs), j \in 1..Len(nbrs) :
              nbrs[i][1] = nbrs[j][1] => i = j

\* ------------------------------------------------------------------------
\* C5  Count consistency.  get_vertex_count() is the number of distinct
\* vertices of the graph, and get_edge_count() is the number of edges
\* present: ordered pairs with has_edge for a directed graph, unordered
\* pairs {u,v} (u = v included) with has_edge for an undirected graph, in
\* both representations.
\* ------------------------------------------------------------------------
EdgesPresent(g) ==
    IF g.directed THEN Cardinality(EdgeSet(g))
    ELSE Cardinality({{e[1], e[2]} : e \in EdgeSet(g)})

CountsConsistent(g) ==
    /\ get_vertex_count(g) = Cardinality(VertexSet(g))
    /\ get_edge_count(g) = EdgesPresent(g)

C5_CountConsistency ==
    CountsConsistent(list_graph) /\ CountsConsistent(matrix_graph)

\* ------------------------------------------------------------------------
\* C6  Absent endpoint.  add_edge(u,v,w) and remove_edge(u,v) return false
\* whenever u or v is not a vertex of the graph, and the graph is then
\* exactly what it was before the call; no vertex is implicitly created.
\* ------------------------------------------------------------------------
Rejected(g, prev, ret, u, v) ==
    (u \notin VertexSet(prev) \/ v \notin VertexSet(prev)) =>
        /\ ret = FALSE
        /\ g = prev
        /\ VertexSet(g) = VertexSet(prev)

C6_AbsentEndpoint ==
    call.name \in {"add_edge", "remove_edge"} =>
        /\ Rejected(list_graph, prev_list, ret_list, call.args[1], call.args[2])
        /\ Rejected(matrix_graph, prev_matrix, ret_matrix, call.args[1], call.args[2])

\* add_edge has just been refused for an absent to_vertex on a graph that
\* holds the from_vertex and an edge.
C6_Witness ==
    /\ call.name = "add_edge"
    /\ call.args[1] \in VertexSet(prev_list)
    /\ call.args[2] \notin VertexSet(prev_list)
    /\ call.args[2] \notin VertexSet(prev_matrix)
    /\ ret_list = FALSE
    /\ ret_matrix = FALSE
    /\ get_edge_count(list_graph) >= 1
    /\ get_edge_count(matrix_graph) >= 1

\* ------------------------------------------------------------------------
\* C7  remove_edge(u,v) with both endpoints present returns true and
\* afterwards has_edge(u,v) is false (and has_edge(v,u) when undirected);
\* if the edge did not exist the graph is unchanged; every edge other than
\* (u,v) (and (v,u) when undirected) keeps its presence and weight, so in a
\* directed graph the reverse edge (v,u) is untouched.
\* ------------------------------------------------------------------------
Removed(g, prev, ret, u, v) ==
    (u \in VertexSet(prev) /\ v \in VertexSet(prev)) =>
        /\ ret = TRUE
        /\ ~has_edge(g, u, v)
        /\ (~g.directed => ~has_edge(g, v, u))
        /\ (~has_edge(prev, u, v) => g = prev)
        /\ get_vertices(g) = get_vertices(prev)
        /\ \A a \in VertexPool, b \in VertexPool :
              (<<a, b>> # <<u, v>> /\ (g.directed \/ <<a, b>> # <<v, u>>))
                  => SameEdge(g, prev, a, b)

C7_RemoveEdge ==
    call.name = "remove_edge" =>
        /\ Removed(list_graph, prev_list, ret_list, call.args[1], call.args[2])
        /\ Removed(matrix_graph, prev_matrix, ret_matrix, call.args[1], call.args[2])

\* An existing edge between two different vertices has just been removed
\* while another edge out of the same vertex stays.
C7_Witness ==
    /\ call.name = "remove_edge"
    /\ call.args[1] # call.args[2]
    /\ has_edge(prev_list, call.args[1], call.args[2])
    /\ has_edge(prev_matrix, call.args[1], call.args[2])
    /\ ret_list = TRUE
    /\ ret_matrix = TRUE
    /\ \E b \in VertexPool : has_edge(list_graph, call.args[1], b)

\* ------------------------------------------------------------------------
\* C8  The two representations are interchangeable.  When the same
\* sequence of add_vertex / add_edge / remove_edge calls with non-zero
\* weights is applied to a GraphAdjacencyList and a GraphAdjacencyMatrix
\* with the same directed flag, every call returns the same value on both
\* and get_vertices, get_vertex_count, get_edge_count, has_edge,
\* get_edge_weight and the collection of (neighbor, weight) pairs of
\* get_neighbors agree.  (Stated for SpecNonZero, whose calls are exactly
\* those sequences.)
\* ------------------------------------------------------------------------
Occurrences(seq, x) == Cardinality({i \in 1..Len(seq) : seq[i] = x})

SameCollection(s1, s2) ==
    \A x \in SeqToSet(s1) \cup SeqToSet(s2) : Occurrences(s1, x) = Occurrences(s2, x)

C8_Interchangeable ==
    /\ ret_list = ret_matrix
    /\ get_vertices(list_graph) = get_vertices(matrix_graph)
    /\ get_vertex_count(list_graph) = get_vertex_count(matrix_graph)
    /\ get_edge_count(list_graph) = get_edge_count(matrix_graph)
    /\ \A u \in VertexPool, v \in VertexPool :
          SameEdge(list_graph, matrix_graph, u, v)
    /\ \A v \in VertexPool :
          SameCollection(get_neighbors(list_graph, v), get_neighbors(matrix_graph, v))

\* ------------------------------------------------------------------------
\* C9  Traversal completeness.  For a connected undirected graph and any
\* start vertex in it, depth_first_search, depth_first_search_recursive and
\* breadth_first_search each return a sequence that contains every vertex
\* exactly once (length = get_vertex_count()) and begins with the start
\* vertex; in general the returned set is exactly the set of vertices
\* reachable from start.
\* ------------------------------------------------------------------------

\* The vertices reachable from the set S along has_edge.
RECURSIVE ReachableFrom(_, _)
ReachableFrom(g, S) ==
    LET S2 == S \cup {v \in VertexPool : \E u \in S : has_edge(g, u, v)}
    IN IF S2 = S THEN S ELSE ReachableFrom(g, S2)

IsConnectedUndirected(g) ==
    /\ ~g.directed
    /\ \A u \in VertexSet(g) : ReachableFrom(g, {u}) = VertexSet(g)

Complete(g, order, start) ==
    start \in VertexSet(g) =>
        /\ order[1] = start
        /\ Len(order) = Cardinality(SeqToSet(order))
        /\ SeqToSet(order) = ReachableFrom(g, {start})
        /\ IsConnectedUndirected(g) =>
              /\ Len(order) = get_vertex_count(g)
              /\ SeqToSet(order) = VertexSet(g)

C9_TraversalCompleteness ==
    IsTraversal =>
        /\ Complete(list_graph, order_list, call.args[1])
        /\ Complete(matrix_graph, order_matrix, call.args[1])

\* A traversal has just returned all three vertices of a connected
\* undirected graph, in both representations.
C9_Witness ==
    /\ IsTraversal
    /\ IsConnectedUndirected(list_graph)
    /\ IsConnectedUndirected(matrix_graph)
    /\ get_vertex_count(list_graph) = 3
    /\ Len(order_list) = 3
    /\ Len(order_matrix) = 3

\* ------------------------------------------------------------------------
\* C10  Traversal determinism independent of storage order.  For two
\* graphs with the same vertex set and the same edge set, built with edges
\* inserted in a different order or held in different representations,
\* depth_first_search and breadth_first_search from the same start vertex
\* return identical sequences.  Stated as: the sequence returned for a
\* graph equals the one returned for the GraphAdjacencyList rebuilt from its
\* vertex set and edge set in one fixed order, and the two representations
\* return the same sequence whenever their vertex and edge sets agree.
\* ------------------------------------------------------------------------

\* The elements of a set of integers in ascending order.
RECURSIVE SetToSeq(_)
SetToSeq(S) ==
    IF S = {} THEN <<>>
    ELSE LET m == CHOOSE x \in S : \A y \in S : x <= y
         IN <<m>> \o SetToSeq(S \ {m})

RECURSIVE AddVertices(_, _, _)
AddVertices(g, vs, i) ==
    IF i > Len(vs) THEN g
    ELSE AddVertices(GraphAdjacencyList_add_vertex(g, vs[i]).graph, vs, i + 1)

RECURSIVE AddEdges(_, _, _, _)
AddEdges(g, src, es, i) ==
    IF i > Len(es) THEN g
    ELSE AddEdges(GraphAdjacencyList_add_edge(g, es[i][1], es[i][2],
                        get_edge_weight(src, es[i][1], es[i][2])[1]).graph,
                  src, es, i + 1)

\* A fresh GraphAdjacencyList given the vertices of g in ascending order
\* of value and then the edges of g in ascending order of (from, to).
Rebuilt(g) ==
    LET vs == SetToSeq(VertexSet(g))
        es == SelectSeq([k \in 1..(Len(vs) * Len(vs)) |->
                            <<vs[((k - 1) \div Len(vs)) + 1], vs[((k - 1) % Len(vs)) + 1]>>],
                        LAMBDA e : has_edge(g, e[1], e[2]))
    IN AddEdges(AddVertices(GraphAdjacencyList_init(g.directed), vs, 1), g, es, 1)

TraversalOf(g, name, start) ==
    IF name = "depth_first_search" THEN depth_first_search(g, start)
    ELSE breadth_first_search(g, start)

C10_StorageOrderIndependence ==
    call.name \in {"depth_first_search", "breadth_first_search"} =>
        /\ order_list = TraversalOf(Rebuilt(list_graph), call.name, call.args[1])
        /\ order_matrix = TraversalOf(Rebuilt(matrix_graph), call.name, call.args[1])
        /\ (/\ VertexSet(list_graph) = VertexSet(matrix_graph)
            /\ EdgeSet(list_graph) = EdgeSet(matrix_graph))
              => order_list = order_matrix

\* depth_first_search has just returned three vertices from a start vertex
\* whose neighbors are stored in one order in the list, in another in the
\* matrix and in a third way in the rebuilt graph.
C10_Witness ==
    /\ call.name = "depth_first_search"
    /\ VertexSet(list_graph) = VertexSet(matrix_graph)
    /\ EdgeSet(list_graph) = EdgeSet(matrix_graph)
    /\ Len(get_neighbors(list_graph, call.args[1])) = 2
    /\ get_neighbors(list_graph, call.args[1]) # get_neighbors(matrix_graph, call.args[1])
    /\ list_graph # Rebuilt(list_graph)
    /\ Len(order_list) = 3
    /\ order_list = order_matrix

\* ------------------------------------------------------------------------
\* C11  Iterative and recursive DFS are equivalent.  For every graph
\* (directed or undirected, cyclic or not, vertices with pairwise distinct
\* string keys) and every start vertex, depth_first_search and
\* depth_first_search_recursive return the same vertex sequence, namely the
\* pre-order in which at each vertex the unvisited neighbor with the
\* smallest string key is explored first.
\* ------------------------------------------------------------------------

\* The element of the non-empty set S of labels whose str is smallest.
MinStr(S) == CHOOSE x \in S : \A y \in S \ {x} : StrLess(str(x), str(y))

\* The pre-order walk: PreOrderVisit enters v, PreOrderExplore then keeps
\* descending into the unvisited successor of v with the smallest str until
\* none is left.  order is the sequence of the vertices entered so far.
RECURSIVE PreOrderVisit(_, _, _)
RECURSIVE PreOrderExplore(_, _, _)
PreOrderVisit(g, v, order) == PreOrderExplore(g, v, Append(order, v))

PreOrderExplore(g, v, order) ==
    LET unvisited == {u \in VertexSet(g) \ SeqToSet(order) : has_edge(g, v, u)}
    IN IF unvisited = {} THEN order
       ELSE PreOrderExplore(g, v, PreOrderVisit(g, MinStr(unvisited), order))

PreOrder(g, start) ==
    IF start \in VertexSet(g) THEN PreOrderVisit(g, start, <<>>) ELSE <<>>

DfsEquivalent(g, order, start) ==
    /\ order = depth_first_search(g, start)
    /\ order = depth_first_search_recursive(g, start)
    /\ order = PreOrder(g, start)

C11_DfsEquivalence ==
    call.name \in {"depth_first_search", "depth_first_search_recursive"} =>
        /\ DfsEquivalent(list_graph, order_list, call.args[1])
        /\ DfsEquivalent(matrix_graph, order_matrix, call.args[1])

\* depth_first_search_recursive has just returned s, a, b on a graph in
\* which s has the edges s-a and s-b, a has the edge a-b and b has an edge
\* back to s: the iterative search pushes b twice on such a graph, and the
\* str order of a and b differs from their numeric order.
C11_Witness ==
    /\ call.name = "depth_first_search_recursive"
    /\ Len(order_list) = 3
    /\ order_matrix = order_list
    /\ has_edge(list_graph, order_list[1], order_list[2])
    /\ has_edge(list_graph, order_list[1], order_list[3])
    /\ has_edge(list_graph, order_list[2], order_list[3])
    /\ has_edge(list_graph, order_list[3], order_list[1])
    /\ order_list[2] > order_list[3]

\* ------------------------------------------------------------------------
\* C12  Dijkstra correctness.  On any graph whose edge weights are all
\* non-negative, dijkstra(graph, start) with no end vertex returns a
\* distance map over all vertices in which distances[v] is the minimum total
\* weight of any path from start to v (0 for start, infinity for vertices
\* unreachable from start), and a predecessor map in which predecessors[v]
\* is None exactly for start and for unreachable vertices.
\* ------------------------------------------------------------------------

\* The simple paths of g that extend the path p (p itself included).
RECURSIVE SimplePathsFrom(_, _)
SimplePathsFrom(g, p) ==
    {p} \cup UNION {SimplePathsFrom(g, Append(p, u)) :
                        u \in {x \in VertexSet(g) \ SeqToSet(p) : has_edge(g, Last(p), x)}}

\* The total weight of the edges along the path p.
RECURSIVE PathWeight(_, _)
PathWeight(g, p) ==
    IF Len(p) <= 1 THEN 0
    ELSE PathWeight(g, Front(p)) + get_edge_weight(g, p[Len(p) - 1], p[Len(p)])[1]

\* The minimum total weight of a simple path from start to v, as a
\* distance: inf when there is none.  Without a cycle of negative weight
\* reachable from start, no walk from start to v weighs less.
MinDistance(g, start, v) ==
    LET W == {PathWeight(g, p) : p \in {q \in SimplePathsFrom(g, <<start>>) : Last(q) = v}}
    IN IF W = {} THEN inf ELSE <<CHOOSE w \in W : \A x \in W : w <= x>>

NonNegative(g) ==
    \A u \in VertexSet(g) : \A v \in VertexSet(g) :
        has_edge(g, u, v) => get_edge_weight(g, u, v)[1] >= 0

\* A dict whose keys are exactly the vertices of g, each once.
OverAllVertices(g, d) ==
    /\ Len(d) = Cardinality(VertexSet(g))
    /\ SeqToSet(DictKeys(d)) = VertexSet(g)

ShortestDistances(g, distances, start) ==
    /\ OverAllVertices(g, distances)
    /\ \A v \in VertexSet(g) : DictGet(distances, v) = MinDistance(g, start, v)

DijkstraCorrect(g, result, start) ==
    (start \in VertexSet(g) /\ NonNegative(g)) =>
        /\ result.returns
        /\ ShortestDistances(g, result.distances, start)
        /\ DictGet(result.distances, start) = <<0>>
        /\ OverAllVertices(g, result.predecessors)
        /\ \A v \in VertexSet(g) :
              (DictGet(result.predecessors, v) = None) <=>
                  (v = start \/ MinDistance(g, start, v) = inf)

C12_DijkstraCorrectness ==
    call.name = "dijkstra" =>
        /\ DijkstraCorrect(list_graph, result_list, call.args[1])
        /\ DijkstraCorrect(matrix_graph, result_matrix, call.args[1])

\* dijkstra has just returned on a graph of non-negative weights in which
\* a vertex has an edge of weight 3 from start but distance 2, by way of a
\* third vertex.
C12_Witness ==
    /\ call.name = "dijkstra"
    /\ call.args[1] \in VertexSet(list_graph)
    /\ NonNegative(list_graph)
    /\ NonNegative(matrix_graph)
    /\ result_matrix = result_list
    /\ \E v \in VertexSet(list_graph) :
          /\ get_edge_weight(list_graph, call.args[1], v) = <<3>>
          /\ DictGet(result_list.distances, v) = <<2>>
          /\ DictGet(result_list.predecessors, v) # <<call.args[1]>>

\* ------------------------------------------------------------------------
\* C13  On the undirected graph with edges A-B:4, A-C:2, B-C:1, B-D:5,
\* C-D:8, C-E:10, D-E:2, dijkstra from A returns distances A=0, B=3, C=2,
\* D=8, E=10, and get_path(predecessors, A, E) returns the sequence
\* A, C, B, D, E (for both representations).  A..E are 1..5 here.
\* ------------------------------------------------------------------------

DemoDistances(result) ==
    /\ result.returns
    /\ result.distances =
          << <<1, <<0>>>>, <<2, <<3>>>>, <<3, <<2>>>>, <<4, <<8>>>>, <<5, <<10>>>> >>

DemoPath(result) ==
    /\ result.status = "returned"
    /\ result.path = <<1, 3, 2, 4, 5>>

C13_DemoShortestPath ==
    /\ (call.name = "dijkstra" /\ call.args[1] = 1) =>
          /\ DemoDistances(result_list)
          /\ DemoDistances(result_matrix)
    /\ (call.name = "get_path" /\ call.args = <<1, 5, "dijkstra">>) =>
          /\ DemoPath(result_list)
          /\ DemoPath(result_matrix)

\* get_path(predecessors, A, E) has just returned on the maps of
\* dijkstra(graph, A), in both representations of the demo graph.
C13_Witness ==
    /\ call.name = "get_path"
    /\ call.args = <<1, 5, "dijkstra">>
    /\ get_vertices(list_graph) = DemoVertices
    /\ get_vertices(matrix_graph) = DemoVertices
    /\ get_edge_count(list_graph) = 7
    /\ get_edge_count(matrix_graph) = 7
    /\ Len(result_list.path) = 5
    /\ Len(result_matrix.path) = 5

\* ------------------------------------------------------------------------
\* C14  Bellman-Ford negative-cycle detection.  bellman_ford(graph, start)
\* returns has_negative_cycle == true if and only if the graph contains a
\* cycle of negative total weight that is reachable from start (in
\* particular for a 3-vertex directed cycle whose weights sum to a negative
\* number, from any start on the cycle); the early exit after a pass with
\* no improvement never causes a reachable negative cycle to be missed.
\* A cycle is a closed walk along stored edges, so an undirected edge of
\* negative weight, walked there and back, is one.
\* ------------------------------------------------------------------------

\* Some simple path from start can be closed, by an edge from its last
\* vertex back to one of its vertices, into a cycle of negative weight.
NegativeCycleReachable(g, start) ==
    \E p \in SimplePathsFrom(g, <<start>>) :
        \E i \in 1..Len(p) :
            /\ has_edge(g, Last(p), p[i])
            /\ PathWeight(g, SubSeq(p, i, Len(p)))
                  + get_edge_weight(g, Last(p), p[i])[1] < 0

NegativeCycleDetected(g, result, start) ==
    start \in VertexSet(g) =>
        /\ result.returns
        /\ result.has_negative_cycle = NegativeCycleReachable(g, start)

C14_NegativeCycleDetection ==
    call.name = "bellman_ford" =>
        /\ NegativeCycleDetected(list_graph, result_list, call.args[1])
        /\ NegativeCycleDetected(matrix_graph, result_matrix, call.args[1])

\* What does hold: the flag that bellman_ford computes is right, and with
\* verbose=False the call returns it.
C14_DetectionWhenQuiet ==
    (call.name = "bellman_ford" /\ call.args[1] \in VertexSet(list_graph)) =>
        /\ result_list.has_negative_cycle = NegativeCycleReachable(list_graph, call.args[1])
        /\ result_matrix.has_negative_cycle = NegativeCycleReachable(matrix_graph, call.args[1])
        /\ ~call.args[2] => (result_list.returns /\ result_matrix.returns)

\* ------------------------------------------------------------------------
\* C15  Bellman-Ford correctness with negative weights.  On any directed
\* graph (negative edge weights allowed) with no negative cycle reachable
\* from start, bellman_ford returns has_negative_cycle == false and
\* distances[v] equal to the minimum total weight of any path from start to
\* v for every vertex v (infinity when unreachable); on graphs with only
\* non-negative weights its distance map equals the one returned by
\* dijkstra.  Stated here for undirected graphs as well.
\* ------------------------------------------------------------------------

BellmanFordCorrect(g, result, start) ==
    (start \in VertexSet(g) /\ ~NegativeCycleReachable(g, start)) =>
        /\ result.returns
        /\ ~result.has_negative_cycle
        /\ ShortestDistances(g, result.distances, start)
        /\ NonNegative(g) =>
              result.distances = dijkstra(g, start, None, FALSE).distances

C15_BellmanFordCorrectness ==
    call.name = "bellman_ford" =>
        /\ BellmanFordCorrect(list_graph, result_list, call.args[1])
        /\ BellmanFordCorrect(matrix_graph, result_matrix, call.args[1])

\* bellman_ford has just returned on a directed graph with an edge of
\* negative weight and no negative cycle reachable from start, in which a
\* vertex two edges away from start has a negative distance, smaller than
\* the weight of its edge from start.
C15_Witness ==
    /\ call.name = "bellman_ford"
    /\ list_graph.directed
    /\ call.args[1] \in VertexSet(list_graph)
    /\ ~NegativeCycleReachable(list_graph, call.args[1])
    /\ ~NonNegative(list_graph)
    /\ result_matrix = result_list
    /\ ~result_list.has_negative_cycle
    /\ \E v \in VertexSet(list_graph) :
          /\ has_edge(list_graph, call.args[1], v)
          /\ DictGet(result_list.distances, v)[1] < 0
          /\ DictGet(result_list.distances, v)[1]
                < get_edge_weight(list_graph, call.args[1], v)[1]

\* ------------------------------------------------------------------------
\* C16  bfs_shortest_path(graph, start, end) returns a path that starts at
\* start, ends at end, follows existing edges, and has the minimum possible
\* number of edges among all start-to-end paths regardless of stored
\* weights; it returns [start] when start == end, and the empty sequence
\* when end is unreachable from start or either endpoint is not in the
\* graph.
\* ------------------------------------------------------------------------

\* The smallest number of edges of a path from start to end, which is
\* reachable from start.
MinHops(g, start, end) ==
    LET H == {Len(q) - 1 : q \in {p \in SimplePathsFrom(g, <<start>>) : Last(p) = end}}
    IN CHOOSE h \in H : \A x \in H : h <= x

FewestEdges(g, path, start, end) ==
    IF start \notin VertexSet(g) \/ end \notin VertexSet(g) THEN path = <<>>
    ELSE IF start = end THEN path = <<start>>
    ELSE IF end \notin ReachableFrom(g, {start}) THEN path = <<>>
    ELSE /\ path # <<>>
         /\ path[1] = start
         /\ Last(path) = end
         /\ \A i \in 1..(Len(path) - 1) : has_edge(g, path[i], path[i + 1])
         /\ Len(path) - 1 = MinHops(g, start, end)

C16_BfsShortestPath ==
    call.name = "bfs_shortest_path" =>
        /\ FewestEdges(list_graph, result_list, call.args[1], call.args[2])
        /\ FewestEdges(matrix_graph, result_matrix, call.args[1], call.args[2])

\* bfs_shortest_path has just returned the single edge from start to end,
\* of weight 3, on a graph in which a path of two edges from start to end
\* weighs less.
C16_Witness ==
    /\ call.name = "bfs_shortest_path"
    /\ result_list = <<call.args[1], call.args[2]>>
    /\ result_matrix = result_list
    /\ get_edge_weight(list_graph, call.args[1], call.args[2]) = <<3>>
    /\ \E p \in SimplePathsFrom(list_graph, <<call.args[1]>>) :
          /\ Len(p) = 3
          /\ Last(p) = call.args[2]
          /\ PathWeight(list_graph, p) < 3

\* ------------------------------------------------------------------------
\* C17  Connectivity of undirected graphs.  For an undirected graph with at
\* least one vertex, is_connected returns true if and only if every vertex
\* is reachable from every other vertex; for a graph made of two disjoint
\* components it returns false, and the set of vertices minus the vertices
\* visited by the DFS from the first vertex equals exactly the component
\* that does not contain the first vertex.
\* ------------------------------------------------------------------------

\* The connected components of an undirected graph.
Components(g) == {ReachableFrom(g, {v}) : v \in VertexSet(g)}

ConnectivityUndirected(g, result) ==
    (~g.directed /\ VertexSet(g) # {}) =>
        /\ result.is_connected =
              (\A u \in VertexSet(g) : \A v \in VertexSet(g) : v \in ReachableFrom(g, {u}))
        /\ Cardinality(Components(g)) = 2 =>
              /\ ~result.is_connected
              /\ result.unreachable \in Components(g)
              /\ get_vertices(g)[1] \notin result.unreachable

C17_UndirectedConnectivity ==
    call.name = "is_connected" =>
        /\ ConnectivityUndirected(list_graph, result_list)
        /\ ConnectivityUndirected(matrix_graph, result_matrix)

\* is_connected has just returned false on an undirected graph of three
\* vertices in two components, the one without the first vertex holding two
\* vertices joined by an edge.
C17_Witness ==
    /\ call.name = "is_connected"
    /\ ~list_graph.directed
    /\ Cardinality(Components(list_graph)) = 2
    /\ Cardinality(Components(matrix_graph)) = 2
    /\ ~result_list.is_connected
    /\ ~result_matrix.is_connected
    /\ Cardinality(result_list.unreachable) = 2
    /\ result_matrix.unreachable = result_list.unreachable

\* ------------------------------------------------------------------------
\* C18  Connectivity of directed graphs is weak connectivity.  For a
\* directed graph, is_connected returns true if and only if the graph is
\* connected when every edge is treated as undirected, independently of
\* edge directions and of the order in which vertices were added.
\* ------------------------------------------------------------------------

\* The vertices reachable from the set S when every edge may be followed in
\* both directions.
RECURSIVE WeaklyReachableFrom(_, _)
WeaklyReachableFrom(g, S) ==
    LET S2 == S \cup {v \in VertexPool :
                    \E u \in S : has_edge(g, u, v) \/ has_edge(g, v, u)}
    IN IF S2 = S THEN S ELSE WeaklyReachableFrom(g, S2)

WeaklyConnected(g) ==
    \A u \in VertexSet(g) : WeaklyReachableFrom(g, {u}) = VertexSet(g)

C18_WeakConnectivity ==
    (call.name = "is_connected" /\ list_graph.directed) =>
        /\ result_list.is_connected = WeaklyConnected(list_graph)
        /\ result_matrix.is_connected = WeaklyConnected(matrix_graph)

\* ------------------------------------------------------------------------
\* C19  Path reconstruction terminates at the start.  For every predecessor
\* map returned by dijkstra(graph, start) or bellman_ford(graph, start) on
\* any graph (including graphs with a negative cycle reachable from start)
\* and every vertex v, following predecessors from v reaches a vertex with
\* no predecessor after finitely many steps, so get_path(predecessors,
\* start, v) terminates; that vertex is start whenever v is reached, and
\* get_path returns the empty sequence when v has no predecessor and
\* v != start.
\* ------------------------------------------------------------------------

\* The predecessor map that the call named algorithm returns for start.
PredecessorsOf(g, algorithm, start) ==
    IF algorithm = "dijkstra" THEN dijkstra(g, start, None, FALSE).predecessors
    ELSE bellman_ford(g, start, FALSE).predecessors

PathReconstructed(g, result, start, v, algorithm) ==
    (start \in VertexSet(g) /\ v \in VertexSet(g)) =>
        LET predecessors == PredecessorsOf(g, algorithm, start)
        IN /\ result.status = "returned"
           /\ (v = start \/ DictGet(predecessors, v) # None) =>
                 (result.path # <<>> /\ result.path[1] = start /\ Last(result.path) = v)
           /\ (DictGet(predecessors, v) = None /\ v # start) => result.path = <<>>

C19_PathReconstructionTerminates ==
    call.name = "get_path" =>
        /\ PathReconstructed(list_graph, result_list, call.args[1], call.args[2], call.args[3])
        /\ PathReconstructed(matrix_graph, result_matrix, call.args[1], call.args[2], call.args[3])

\* What does hold: the property for the maps of dijkstra, and for the maps of
\* bellman_ford when no negative cycle is reachable from start.
C19_WithoutNegativeCycle ==
    (/\ call.name = "get_path"
     /\ call.args[3] = "bellman_ford" =>
            (/\ ~NegativeCycleReachable(list_graph, call.args[1])
             /\ ~NegativeCycleReachable(matrix_graph, call.args[1])))
        => C19_PathReconstructionTerminates

\* ------------------------------------------------------------------------
\* C20  Absent start vertex.  When start is not a vertex of the graph,
\* depth_first_search, depth_first_search_recursive and
\* breadth_first_search return the empty sequence, dijkstra returns two
\* empty maps, bellman_ford returns two empty maps and
\* has_negative_cycle == false, and find_all_paths returns the empty list;
\* none of them fails and the graph is unchanged.
\* ------------------------------------------------------------------------

AbsentStart(g, prev, order, result) ==
    call.args[1] \notin VertexSet(prev) =>
        /\ g = prev
        /\ IsTraversal => order = <<>>
        /\ call.name = "dijkstra" =>
              result = [returns |-> TRUE, distances |-> <<>>, predecessors |-> <<>>]
        /\ call.name = "bellman_ford" =>
              result = [returns |-> TRUE, distances |-> <<>>, predecessors |-> <<>>,
                        has_negative_cycle |-> FALSE]
        /\ call.name = "find_all_paths" => result = <<>>

C20_AbsentStartVertex ==
    (IsTraversal \/ call.name \in {"dijkstra", "bellman_ford", "find_all_paths"}) =>
        /\ AbsentStart(list_graph, prev_list, order_list, result_list)
        /\ AbsentStart(matrix_graph, prev_matrix, order_matrix, result_matrix)

\* dijkstra has just returned for a start label that is not a vertex of a
\* graph with two vertices and an edge between them.
C20_Witness ==
    /\ call.name = "dijkstra"
    /\ call.args[1] \notin VertexSet(list_graph)
    /\ call.args[1] \notin VertexSet(matrix_graph)
    /\ get_vertex_count(list_graph) = 2
    /\ EdgeSet(list_graph) # {}
    /\ result_list.distances = <<>>
    /\ result_matrix.distances = <<>>

\* ------------------------------------------------------------------------
\* C21  No core operation fails on a not-found condition.  has_edge,
\* get_edge_weight and get_neighbors called with a vertex that is not in
\* the graph, bfs_shortest_path and find_all_paths called with an absent
\* endpoint, and get_path called with a target vertex that is not a key of
\* the predecessor map (as on the empty maps returned for an absent start)
\* all return false, the no-edge result or an empty sequence instead of
\* raising.
\* ------------------------------------------------------------------------

\* The queries and the two searches on g for every pair of labels of which
\* at least one is not a vertex of g.
NotFoundQueries(g) ==
    \A u \in Labels, v \in Labels :
        (u \notin VertexSet(g) \/ v \notin VertexSet(g)) =>
            /\ has_edge(g, u, v) = FALSE
            /\ get_edge_weight(g, u, v) = None
            /\ u \notin VertexSet(g) => get_neighbors(g, u) = <<>>
            /\ bfs_shortest_path(g, u, v) = <<>>
            /\ find_all_paths(g, u, v, 10) = <<>>

\* get_path has returned the empty path for a target that is not a key of
\* predecessors.
NotFoundPath(predecessors, result, end_vertex) ==
    ~DictHas(predecessors, end_vertex) =>
        result = [status |-> "returned", path |-> <<>>]

C21_NoFailureOnNotFound ==
    /\ NotFoundQueries(list_graph)
    /\ NotFoundQueries(matrix_graph)
    /\ call.name = "get_path" =>
        /\ NotFoundPath(PredecessorsOf(list_graph, call.args[3], call.args[1]),
                        result_list, call.args[2])
        /\ NotFoundPath(PredecessorsOf(matrix_graph, call.args[3], call.args[1]),
                        result_matrix, call.args[2])

\* What does hold: the queries and the searches return their not-found
\* results, and get_path raises KeyError only for a target that is not a
\* key of the map.
C21_QueriesAndSearches ==
    /\ NotFoundQueries(list_graph)
    /\ NotFoundQueries(matrix_graph)
    /\ (call.name = "get_path" /\ result_list.status = "KeyError") =>
            ~DictHas(PredecessorsOf(list_graph, call.args[3], call.args[1]), call.args[2])

\* ------------------------------------------------------------------------
\* C22  Empty-graph boundary.  On a freshly constructed graph with zero
\* vertices, of either representation, get_vertices returns an empty
\* sequence, get_vertex_count and get_edge_count return 0, get_neighbors(v)
\* returns an empty sequence, has_edge(u, v) is false, every traversal,
\* find_all_paths and bfs_shortest_path return an empty sequence, dijkstra
\* and bellman_ford return empty maps, and none of these calls fails.
\* ------------------------------------------------------------------------

\* The graph is as its constructor leaves it.
FreshlyConstructed(g) ==
    \/ g = GraphAdjacencyList_init(g.directed)
    \/ g = GraphAdjacencyMatrix_init(g.directed)

\* The queries on g, and what the last call returned on g.
EmptyBoundary(g, order, result) ==
    /\ get_vertices(g) = <<>>
    /\ get_vertex_count(g) = 0
    /\ get_edge_count(g) = 0
    /\ \A u \in Labels, v \in Labels :
          /\ get_neighbors(g, v) = <<>>
          /\ has_edge(g, u, v) = FALSE
    /\ IsTraversal => order = <<>>
    /\ call.name \in {"find_all_paths", "bfs_shortest_path"} => result = <<>>
    /\ call.name \in {"dijkstra", "bellman_ford"} =>
          /\ result.returns
          /\ result.distances = <<>>
          /\ result.predecessors = <<>>

C22_EmptyGraphBoundary ==
    /\ FreshlyConstructed(list_graph) => EmptyBoundary(list_graph, order_list, result_list)
    /\ FreshlyConstructed(matrix_graph) =>
          EmptyBoundary(matrix_graph, order_matrix, result_matrix)

\* find_all_paths has just returned on graphs without vertices, for a start
\* that is also the end.
C22_Witness ==
    /\ FreshlyConstructed(list_graph)
    /\ FreshlyConstructed(matrix_graph)
    /\ call.name = "find_all_paths"
    /\ call.args[1] = call.args[2]
    /\ result_list = <<>>
    /\ result_matrix = <<>>

\* ------------------------------------------------------------------------
\* C23  Zero weight means no edge in the matrix representation.  On a
\* GraphAdjacencyMatrix, add_edge(u, v, 0) with both endpoints present
\* returns true yet leaves the graph in exactly the state remove_edge(u, v)
\* would: has_edge(u, v) false, get_edge_weight(u, v) the no-edge result,
\* v absent from get_neighbors(u), the edge not counted.  This holds even
\* when an edge (u, v) with non-zero weight existed before the call.
\* ------------------------------------------------------------------------

\* The labels that get_neighbors(g, u) lists.
NeighborSet(g, u) == {get_neighbors(g, u)[i][1] : i \in 1..Len(get_neighbors(g, u))}

\* g and ret are what add_edge(u, v, 0) made of prev and returned.
ZeroWeightRemoves(g, prev, ret, u, v) ==
    (u \in VertexSet(prev) /\ v \in VertexSet(prev)) =>
        /\ ret = TRUE
        /\ g = remove_edge(prev, u, v).graph
        /\ ~has_edge(g, u, v)
        /\ get_edge_weight(g, u, v) = None
        /\ v \notin NeighborSet(g, u)
        /\ get_edge_count(g) = get_edge_count(remove_edge(prev, u, v).graph)
        /\ get_edge_count(g) <= get_edge_count(prev)

C23_MatrixZeroWeight ==
    (call.name = "add_edge" /\ call.args[3] = 0) =>
        ZeroWeightRemoves(matrix_graph, prev_matrix, ret_matrix, call.args[1], call.args[2])

\* add_edge(u, v, 0) has just been called on a matrix that held the edge
\* (u, v) with a non-zero weight next to another edge, and the edge is gone.
C23_Witness ==
    /\ call.name = "add_edge"
    /\ call.args[3] = 0
    /\ has_edge(prev_matrix, call.args[1], call.args[2])
    /\ get_edge_count(prev_matrix) = 2
    /\ get_edge_count(matrix_graph) = 1
    /\ ~has_edge(matrix_graph, call.args[1], call.args[2])
    /\ ret_matrix = TRUE

\* ------------------------------------------------------------------------
\* C24  find_all_paths soundness and cap.  As claimed: for any graph,
\* present start and end, and any max_paths >= 0, find_all_paths returns at
\* most max_paths paths; each returned path begins with start, ends with
\* end, repeats no vertex, and every consecutive pair in it is an existing
\* edge; no path is returned twice; start == end yields the single path
\* [start]; and after the call the graph is unchanged.
\* ------------------------------------------------------------------------

\* p is a simple path of g from start to end.
IsSimplePath(g, p, start, end) ==
    /\ p # <<>>
    /\ p[1] = start
    /\ Last(p) = end
    /\ \A i \in 1..Len(p), j \in 1..Len(p) : p[i] = p[j] => i = j
    /\ \A i \in 1..(Len(p) - 1) : has_edge(g, p[i], p[i + 1])

\* all_paths is what find_all_paths(start, end, max_paths) returned on g,
\* which was prev before the call.
SoundPaths(g, prev, all_paths, start, end, max_paths) ==
    /\ Len(all_paths) <= max_paths
    /\ \A k \in 1..Len(all_paths) : IsSimplePath(g, all_paths[k], start, end)
    /\ \A k \in 1..Len(all_paths), m \in 1..Len(all_paths) :
          all_paths[k] = all_paths[m] => k = m
    /\ g = prev

PathsSoundAsClaimed(g, prev, all_paths, start, end, max_paths) ==
    (start \in VertexSet(g) /\ end \in VertexSet(g)) =>
        /\ SoundPaths(g, prev, all_paths, start, end, max_paths)
        /\ start = end => all_paths = << <<start>> >>

C24_FindAllPathsSound_AsClaimed ==
    call.name = "find_all_paths" =>
        /\ PathsSoundAsClaimed(list_graph, prev_list, result_list,
                               call.args[1], call.args[2], call.args[3])
        /\ PathsSoundAsClaimed(matrix_graph, prev_matrix, result_matrix,
                               call.args[1], call.args[2], call.args[3])

\* C24 as amended: start == end yields the single path [start] when
\* max_paths >= 1, and no path when max_paths is 0; the rest as claimed.
PathsSound(g, prev, all_paths, start, end, max_paths) ==
    (start \in VertexSet(g) /\ end \in VertexSet(g)) =>
        /\ SoundPaths(g, prev, all_paths, start, end, max_paths)
        /\ (start = end /\ max_paths >= 1) => all_paths = << <<start>> >>
        /\ max_paths = 0 => all_paths = <<>>

C24_FindAllPathsSound ==
    call.name = "find_all_paths" =>
        /\ PathsSound(list_graph, prev_list, result_list,
                      call.args[1], call.args[2], call.args[3])
        /\ PathsSound(matrix_graph, prev_matrix, result_matrix,
                      call.args[1], call.args[2], call.args[3])

\* find_all_paths has just returned exactly max_paths = 2 paths, one of
\* them with four vertices, between two different vertices.
C24_Witness ==
    /\ call.name = "find_all_paths"
    /\ call.args[1] # call.args[2]
    /\ call.args[3] = 2
    /\ Len(result_list) = 2
    /\ Len(result_matrix) = 2
    /\ \E k \in 1..2 : Len(result_list[k]) = 4

\* ------------------------------------------------------------------------
\* C25  find_all_paths exhaustiveness.  When the number of simple paths
\* from start to end is at most max_paths, find_all_paths returns exactly
\* the set of all simple start-to-end paths, each exactly once; when there
\* are more, it returns exactly max_paths of them: the first ones in
\* depth-first discovery order over the stored neighbor order.
\* ------------------------------------------------------------------------

\* All simple paths of g from start to end.
AllSimplePaths(g, start, end) ==
    {p \in SimplePathsFrom(g, <<start>>) : Last(p) = end}

\* The position of v in get_neighbors(g, u).
NeighborPosition(g, u, v) ==
    CHOOSE i \in 1..Len(get_neighbors(g, u)) :
        /\ get_neighbors(g, u)[i][1] = v
        /\ \A j \in 1..(i - 1) : get_neighbors(g, u)[j][1] # v

\* Depth-first discovery order of two different paths to the same end: at
\* the first vertex where they part, p takes the neighbor stored earlier.
DiscoveredBefore(g, p, q) ==
    \E i \in 2..Len(p) :
        /\ i <= Len(q)
        /\ \A j \in 1..(i - 1) : p[j] = q[j]
        /\ p[i] # q[i]
        /\ NeighborPosition(g, p[i - 1], p[i]) < NeighborPosition(g, q[i - 1], q[i])

Exhaustive(g, all_paths, start, end, max_paths) ==
    (start \in VertexSet(g) /\ end \in VertexSet(g)) =>
        LET All == AllSimplePaths(g, start, end)
        IN /\ SeqToSet(all_paths) \subseteq All
           /\ \A k \in 1..Len(all_paths), m \in 1..Len(all_paths) :
                 k < m => DiscoveredBefore(g, all_paths[k], all_paths[m])
           /\ Cardinality(All) <= max_paths =>
                 (SeqToSet(all_paths) = All /\ Len(all_paths) = Cardinality(All))
           /\ Cardinality(All) > max_paths =>
                 /\ Len(all_paths) = max_paths
                 /\ \A q \in All \ SeqToSet(all_paths) :
                       \A k \in 1..Len(all_paths) : DiscoveredBefore(g, all_paths[k], q)

C25_FindAllPathsExhaustive ==
    call.name = "find_all_paths" =>
        /\ Exhaustive(list_graph, result_list, call.args[1], call.args[2], call.args[3])
        /\ Exhaustive(matrix_graph, result_matrix, call.args[1], call.args[2], call.args[3])

\* find_all_paths has just returned two paths where more than three exist,
\* and with max_paths = 10 it returns them all.
C25_Witness ==
    /\ call.name = "find_all_paths"
    /\ call.args[3] = 2
    /\ Len(result_list) = 2
    /\ Cardinality(AllSimplePaths(list_graph, call.args[1], call.args[2])) > 3
    /\ Cardinality(AllSimplePaths(matrix_graph, call.args[1], call.args[2])) > 3
    /\ Len(find_all_paths(list_graph, call.args[1], call.args[2], 10)) =
          Cardinality(AllSimplePaths(list_graph, call.args[1], call.args[2]))

\* ------------------------------------------------------------------------
\* C26  Dijkstra early termination.  With non-negative weights and an end
\* vertex supplied that is reachable from start, dijkstra stops once end is
\* finalized and the returned distances[end] equals the true shortest-path
\* distance from start to end (and get_path to end has that total weight);
\* every other finite entry of the returned distance map is an upper bound
\* on the true distance of its vertex: the weight of some real path.
\* ------------------------------------------------------------------------

\* a <= b on two distances
FloatLessEq(a, b) == a = b \/ FloatLess(a, b)

\* The loop stopped when end was finalized: end relaxed none of its
\* neighbors, and every vertex that did relax one was finalized no later
\* than end.
StoppedAt(g, predecessors, start, end) ==
    \A v \in VertexSet(g) :
        DictGet(predecessors, v) # None =>
            LET u == DictGet(predecessors, v)[1]
            IN /\ u # end
               /\ FloatLessEq(MinDistance(g, start, u), MinDistance(g, start, end))

\* distances[end] and the path to end are final, and every finite distance
\* is the weight of a path.
EndFinal(g, result, start, end) ==
    /\ result.returns
    /\ OverAllVertices(g, result.distances)
    /\ OverAllVertices(g, result.predecessors)
    /\ DictGet(result.distances, end) = MinDistance(g, start, end)
    /\ LET p == get_path(result.predecessors, start, end)
       IN /\ p.status = "returned"
          /\ IsSimplePath(g, p.path, start, end)
          /\ <<PathWeight(g, p.path)>> = MinDistance(g, start, end)
    /\ \A v \in VertexSet(g) :
          DictGet(result.distances, v) # inf =>
              /\ FloatLessEq(MinDistance(g, start, v), DictGet(result.distances, v))
              /\ \E q \in SimplePathsFrom(g, <<start>>) :
                    Last(q) = v /\ <<PathWeight(g, q)>> = DictGet(result.distances, v)

\* start is a vertex of g, no weight of g is negative, and end is
\* reachable from start.
EndReachable(g, start, end) ==
    /\ start \in VertexSet(g)
    /\ NonNegative(g)
    /\ MinDistance(g, start, end) # inf

EarlyTermination(g, result, start, end) ==
    EndReachable(g, start, end) =>
        /\ EndFinal(g, result, start, end)
        /\ StoppedAt(g, result.predecessors, start, end)

C26_DijkstraEarlyTermination ==
    (call.name = "dijkstra" /\ Len(call.args) = 3) =>
        /\ EarlyTermination(list_graph, result_list, call.args[1], call.args[3][1])
        /\ EarlyTermination(matrix_graph, result_matrix, call.args[1], call.args[3][1])

\* What does hold: the distance of end and its path are final for every
\* end vertex, and the loop stops at every end vertex other than 0.
C26_ExceptFalsyEnd ==
    (call.name = "dijkstra" /\ Len(call.args) = 3) =>
        /\ EndReachable(list_graph, call.args[1], call.args[3][1]) =>
              EndFinal(list_graph, result_list, call.args[1], call.args[3][1])
        /\ EndReachable(matrix_graph, call.args[1], call.args[3][1]) =>
              EndFinal(matrix_graph, result_matrix, call.args[1], call.args[3][1])
        /\ Truthy(call.args[3]) => C26_DijkstraEarlyTermination

\* dijkstra has stopped at a reachable end vertex other than 0 and left a
\* vertex behind it unreached that a full run reaches.
C26_StoppedEarly ==
    /\ call.name = "dijkstra"
    /\ Len(call.args) = 3
    /\ Truthy(call.args[3])
    /\ EndReachable(list_graph, call.args[1], call.args[3][1])
    /\ \E v \in VertexSet(list_graph) :
          /\ DictGet(result_list.distances, v) = inf
          /\ MinDistance(list_graph, call.args[1], v) # inf

\* ------------------------------------------------------------------------
\* C27  Every algorithm runs to completion.  depth_first_search,
\* depth_first_search_recursive, breadth_first_search, find_all_paths,
\* is_connected, dijkstra, bfs_shortest_path and bellman_ford (in verbose
\* and in non-verbose mode) each terminate and return for every finite
\* graph, including directed and undirected cycles, self-loops, negative
\* weights and negative cycles.  A state after a call of dijkstra or
\* bellman_ford records whether the call returns; a state after a call of
\* one of the others exists only because that call returned.
\* ------------------------------------------------------------------------

\* The last call returned on the object that result was computed on.
Returned(result) ==
    call.name \in {"dijkstra", "bellman_ford"} => result.returns

C27_AlgorithmsReturn ==
    /\ Returned(result_list)
    /\ Returned(result_matrix)

\* What does hold: dijkstra returns in both modes whatever the weights, and
\* bellman_ford returns when it is not verbose or no negative cycle is
\* reachable from its start vertex.
C27_ExceptVerboseNegativeCycle ==
    /\ call.name = "dijkstra" => (result_list.returns /\ result_matrix.returns)
    /\ call.name = "bellman_ford" =>
          /\ ~(call.args[2] /\ NegativeCycleReachable(list_graph, call.args[1])) =>
                result_list.returns
          /\ ~(call.args[2] /\ NegativeCycleReachable(matrix_graph, call.args[1])) =>
                result_matrix.returns

\* ------------------------------------------------------------------------
\* C28  BFS is level-order with single enqueue.  During breadth_first_search
\* every vertex is enqueued at most once (it is marked visited when
\* enqueued, so the queue never holds a duplicate or an already-output
\* vertex), and the returned sequence lists vertices in non-decreasing order
\* of their hop distance from start, with vertices discovered from the same
\* parent in ascending string-key order.
\* ------------------------------------------------------------------------

NoDuplicates(s) == \A i \in 1..Len(s), j \in 1..Len(s) : s[i] = s[j] => i = j

\* The vertices of enqueued, in the order they were enqueued.
EnqueueOrder(enqueued) == [i \in 1..Len(enqueued) |-> enqueued[i][1]]

\* Between two passes of the loop: every vertex was enqueued at most once
\* and marked then, and the queue holds the vertices not yet output, in the
\* order they were enqueued.
SingleEnqueue(locals) ==
    /\ NoDuplicates(EnqueueOrder(locals.enqueued))
    /\ locals.visited = SeqToSet(EnqueueOrder(locals.enqueued))
    /\ NoDuplicates(locals.queue)
    /\ SeqToSet(locals.queue) \cap SeqToSet(locals.traversal_order) = {}
    /\ locals.traversal_order \o locals.queue = EnqueueOrder(locals.enqueued)

\* order lists vertices reachable from start by non-decreasing hop distance.
LevelOrder(g, order, start) ==
    \A i \in 1..Len(order), j \in 1..Len(order) :
        i < j => MinHops(g, start, order[i]) <= MinHops(g, start, order[j])

\* Vertices enqueued from the same parent were enqueued in ascending order
\* of their string keys, and each one hop further from start than the parent.
SiblingsAscending(g, enqueued, start) ==
    /\ \A i \in 1..Len(enqueued), j \in 1..Len(enqueued) :
          (i < j /\ enqueued[i][2] = enqueued[j][2]) =>
              StrLess(str(enqueued[i][1]), str(enqueued[j][1]))
    /\ \A i \in 2..Len(enqueued) :
          /\ has_edge(g, enqueued[i][2][1], enqueued[i][1])
          /\ MinHops(g, start, enqueued[i][1]) = MinHops(g, start, enqueued[i][2][1]) + 1

BfsLevelOrder(g, locals, order, start) ==
    IF BfsRunning
    THEN /\ SingleEnqueue(locals)
         /\ LevelOrder(g, EnqueueOrder(locals.enqueued), start)
         /\ SiblingsAscending(g, locals.enqueued, start)
    ELSE /\ order = breadth_first_search(g, start)
         /\ NoDuplicates(order)
         /\ LevelOrder(g, order, start)

C28_BfsLevelOrder ==
    call.name = "breadth_first_search" =>
        /\ BfsLevelOrder(list_graph, result_list, order_list, call.args[1])
        /\ BfsLevelOrder(matrix_graph, result_matrix, order_matrix, call.args[1])

\* The loop has output start and then two vertices it had enqueued from
\* start, the first of which has the second as a neighbor and did not
\* enqueue it again; the queue is empty.
C28_Witness ==
    /\ BfsRunning
    /\ result_list.queue = <<>>
    /\ Len(result_list.traversal_order) = 3
    /\ result_list.enqueued[2][2] = <<call.args[1]>>
    /\ result_list.enqueued[3][2] = <<call.args[1]>>
    /\ has_edge(list_graph, result_list.traversal_order[2], result_list.traversal_order[3])
    /\ result_matrix.traversal_order = result_list.traversal_order

\* ------------------------------------------------------------------------
\* C29  Predecessor/distance consistency.  In the maps returned by dijkstra
\* (non-negative weights, no end vertex) and by bellman_ford when
\* has_negative_cycle is false, for every vertex v with
\* predecessors[v] = u != None the edge (u, v) exists and
\* distances[v] == distances[u] + weight(u, v); consequently
\* get_path(predecessors, start, v) is a real path from start to v whose
\* edge weights sum to distances[v].
\* ------------------------------------------------------------------------

\* What the call named algorithm returns for start, computed quietly.
ResultOf(g, algorithm, start) ==
    IF algorithm = "dijkstra" THEN dijkstra(g, start, None, FALSE)
    ELSE bellman_ford(g, start, FALSE)

\* The maps are ones the property speaks of.
MapsInScope(g, result, algorithm, start) ==
    /\ start \in VertexSet(g)
    /\ algorithm = "dijkstra" => NonNegative(g)
    /\ algorithm = "bellman_ford" => ~result.has_negative_cycle

\* Every predecessor entry is an edge that accounts for the distance.
PredecessorsConsistent(g, result, algorithm, start) ==
    MapsInScope(g, result, algorithm, start) =>
        \A v \in VertexSet(g) :
            DictGet(result.predecessors, v) # None =>
                LET u == DictGet(result.predecessors, v)[1]
                IN /\ has_edge(g, u, v)
                   /\ DictGet(result.distances, u) # inf
                   /\ DictGet(result.distances, v) =
                         <<DictGet(result.distances, u)[1] + get_edge_weight(g, u, v)[1]>>

\* path is what get_path returned for v on the maps of the algorithm: a
\* path of g from start to v that weighs distances[v].
PathConsistent(g, path, algorithm, start, v) ==
    LET result == ResultOf(g, algorithm, start)
    IN (/\ MapsInScope(g, result, algorithm, start)
        /\ v \in VertexSet(g)
        /\ DictGet(result.distances, v) # inf) =>
            /\ path.status = "returned"
            /\ IsSimplePath(g, path.path, start, v)
            /\ <<PathWeight(g, path.path)>> = DictGet(result.distances, v)

C29_PredecessorDistanceConsistency ==
    /\ call.name \in {"dijkstra", "bellman_ford"} =>
          /\ PredecessorsConsistent(list_graph, result_list, call.name, call.args[1])
          /\ PredecessorsConsistent(matrix_graph, result_matrix, call.name, call.args[1])
    /\ call.name = "get_path" =>
          /\ PathConsistent(list_graph, result_list, call.args[3], call.args[1], call.args[2])
          /\ PathConsistent(matrix_graph, result_matrix, call.args[3], call.args[1],
                            call.args[2])

\* get_path has just returned, on the maps of bellman_ford, a path of two
\* edges of negative total weight.
C29_Witness ==
    /\ call.name = "get_path"
    /\ call.args[3] = "bellman_ford"
    /\ ~ResultOf(list_graph, "bellman_ford", call.args[1]).has_negative_cycle
    /\ result_list.status = "returned"
    /\ Len(result_list.path) = 3
    /\ PathWeight(list_graph, result_list.path) < 0
    /\ result_matrix = result_list

\* ------------------------------------------------------------------------
\* C30  Dijkstra lazy deletion.  Each vertex is finalized (added to the
\* visited set) at most once even though the priority queue can hold
\* several entries for it; the distance with which a vertex is popped at
\* finalization equals its current distances entry; after finalization its
\* distances and predecessors entries are never modified again; and under
\* non-negative weights vertices are finalized in non-decreasing order of
\* distance.
\* ------------------------------------------------------------------------

\* The vertices of finalized, in the order they were finalized.
FinalizedOrder(finalized) == [i \in 1..Len(finalized) |-> finalized[i][1]]

\* Between two passes of the loop.
LazyDeletion(g, locals) ==
    /\ NoDuplicates(FinalizedOrder(locals.finalized))
    /\ locals.visited = SeqToSet(FinalizedOrder(locals.finalized))
    /\ \A i \in 1..Len(locals.finalized) :
          /\ DictGet(locals.distances, locals.finalized[i][1]) = <<locals.finalized[i][2]>>
          /\ DictGet(locals.predecessors, locals.finalized[i][1]) = locals.finalized[i][3]
    /\ NonNegative(g) =>
          \A i \in 1..Len(locals.finalized), j \in 1..Len(locals.finalized) :
              i < j => locals.finalized[i][2] <= locals.finalized[j][2]

\* The maps returned at the end are those the function computes in one
\* piece.
SameAsDijkstra(g, result, start) ==
    result = dijkstra(g, start, None, FALSE)

C30_DijkstraLazyDeletion ==
    call.name = "dijkstra" =>
        IF DijkstraRunning
        THEN /\ LazyDeletion(list_graph, result_list)
             /\ LazyDeletion(matrix_graph, result_matrix)
        ELSE /\ SameAsDijkstra(list_graph, result_list, call.args[1])
             /\ SameAsDijkstra(matrix_graph, result_matrix, call.args[1])

\* The queue holds an entry for a vertex that has been finalized already,
\* with a larger distance than the one it was finalized with.
C30_Witness ==
    /\ DijkstraRunning
    /\ \E e \in result_list.pq :
          /\ e[2] \in result_list.visited
          /\ FloatLess(DictGet(result_list.distances, e[2]), <<e[1]>>)
    /\ \E e \in result_matrix.pq : e[2] \in result_matrix.visited
    /\ Len(result_list.finalized) = 3

====
